---- MODULE Spec2Model ----
(***************************************************************************)
(* Reward settlement core of the fishing plugin: the weighted draw, the    *)
(* in-memory aggregation and batch persistence of GachaService, and the    *)
(* 10000-draw handler of FishingPlugin with its admission lock and refund. *)
(***************************************************************************)
EXTENDS Integers, Sequences, FiniteSets, TLC

\* ------------------------------------------------------------------ data

None == "none"

\* Senders of commands; "u3" is not registered in the runs that start from Init
\* (registration is external).
UserIds == {"u1", "u2", "u3"}
Registered == {"u1", "u2"}

\* Item templates known to item_template_repo (get_*_by_id returns None otherwise).
RodTemplate == 1 :> [rarity |-> 5]
AccessoryTemplate == 1 :> [rarity |-> 4]
BaitTemplate == 1 :> [rarity |-> 2]
TitleTemplate == {1}

RodIds == {1}
AccessoryIds == {1}
BaitIds == {1}
TitleIds == {1}

PoolItem(p, t, id, q, w) ==
    [gacha_pool_id |-> p, item_type |-> t, item_id |-> id, quantity |-> q, weight |-> w]

\* The configured pools: pool 1 is the spec's example pool, pool 3 has no entries.
Pools ==
    1 :> [cost_coins |-> 1,
          items |-> << PoolItem(1, "rod", 1, 1, 70), PoolItem(1, "coins", 0, 10, 30) >>]
    @@ 2 :> [cost_coins |-> 2,
          items |-> << PoolItem(2, "bait", 1, 2, 5), PoolItem(2, "titles", 1, 1, 1),
                       PoolItem(2, "accessory", 1, 1, 4) >>]
    @@ 3 :> [cost_coins |-> 1, items |-> << >>]

\* Pool ids a command can name; 4 names no pool.
PoolIdArgs == {1, 2, 3, 4}

BatchSize == 2000
NumBatches == 5
TenThousand == 10000

\* ------------------------------------------------------------------ helpers

RECURSIVE SumOver(_, _)
SumOver(f, S) ==
    IF S = {} THEN 0
    ELSE LET x == CHOOSE y \in S : TRUE IN f[x] + SumOver(f, S \ {x})

\* Bags (multisets) as functions from elements to positive counts.
EmptyBag == << >>
BagCount(b, e) == IF e \in DOMAIN b THEN b[e] ELSE 0
BagAdd(b, e, k) ==
    IF k <= 0 THEN b
    ELSE [x \in DOMAIN b \cup {e} |-> BagCount(b, x) + (IF x = e THEN k ELSE 0)]
BagUnion(a, b) == [x \in DOMAIN a \cup DOMAIN b |-> BagCount(a, x) + BagCount(b, x)]
BagSize(b) == SumOver(b, DOMAIN b)

RECURSIVE BagAddAll(_, _, _)
\* adds, for every x in S, cnt[x] copies of el[x]
BagAddAll(b, S, f) ==
    IF S = {} THEN b
    ELSE LET x == CHOOSE y \in S : TRUE
         IN BagAddAll(BagAdd(b, f[x].e, f[x].k), S \ {x}, f)

Max(a, b) == IF a >= b THEN a ELSE b

\* ------------------------------------------------------------------ DrawEngine

TotalWeight(items) == SumOver([i \in DOMAIN items |-> items[i].weight], DOMAIN items)

RECURSIVE WalkWeights(_, _, _, _)
WalkWeights(items, rand_val, i, current_weight) ==
    IF i > Len(items) THEN 0
    ELSE IF rand_val <= current_weight + items[i].weight THEN i
    ELSE WalkWeights(items, rand_val, i + 1, current_weight + items[i].weight)

\* Mutant: an entry is returned only if the random value is below its accumulated
\* weight.
RECURSIVE WalkWeightsStrict(_, _, _, _)
WalkWeightsStrict(items, rand_val, i, current_weight) ==
    IF i > Len(items) THEN 0
    ELSE IF rand_val < current_weight + items[i].weight THEN i
    ELSE WalkWeightsStrict(items, rand_val, i + 1, current_weight + items[i].weight)

SingleWeightedDrawStrict(items, rand_val) == WalkWeightsStrict(items, rand_val, 1, 0)

\* _perform_single_weighted_draw for one value of the random source; 0 is None.
SingleWeightedDraw(items, rand_val) == WalkWeights(items, rand_val, 1, 0)

\* Every entry random.uniform(0, total_weight) can select (a real value selects
\* what its ceiling selects, so the integer points cover the range).
Drawable(items) ==
    {SingleWeightedDraw(items, r) : r \in 0..TotalWeight(items)} \ {0}

\* Largest request size whose mixed outcomes are enumerated.
MaxMixedDraws == 10

\* Outcomes of num_draws draws as a count per pool entry. A request of up to
\* MaxMixedDraws draws: all draws on one entry, or one draw on each other drawable
\* entry and the rest on one entry. A larger request: one draw on each other
\* drawable entry and the rest on the first drawable entry.
DrawBags(items, num_draws) ==
    LET D == Drawable(items)
        first == CHOOSE d \in D : \A e \in D : d <= e
        Homog == {[i \in DOMAIN items |-> IF i = d THEN num_draws ELSE 0] : d \in D}
        Mixed(S) == {[i \in DOMAIN items |->
                       IF i = d THEN num_draws - (Cardinality(D) - 1)
                       ELSE IF i \in D THEN 1 ELSE 0] : d \in S}
    IN IF num_draws > MaxMixedDraws THEN Mixed({first})
       ELSE Homog \cup (IF num_draws >= Cardinality(D) THEN Mixed(D) ELSE {})

\* Ordinary draw commands: gacha (1 draw) and ten_gacha (10 draws).
DrawCommands == {1, 10}

\* The outcomes of every request size on every pool, computed once.
BagTable ==
    [p \in DOMAIN Pools |-> [n \in DrawCommands \cup {BatchSize} |->
        IF Pools[p].items = << >> THEN {EmptyBag} ELSE DrawBags(Pools[p].items, n)]]

DrawBagsFor(pool_id, num_draws) ==
    IF pool_id \in DOMAIN Pools THEN BagTable[pool_id][num_draws] ELSE {EmptyBag}

\* ------------------------------------------------------------------ stores

\* User.can_afford
CanAfford(balance, cost) == balance >= cost

\* achievement_repo.grant_title_to_user: the title joins the user's titles.
GrantTitleToUser(owned, title_id) == owned \cup {title_id}

\* Store faults a call can meet: which repository call raises, and how the
\* equipment bulk insert's fallback goes.
Faults == {"none", "debit", "rod_fb_all", "rod_fb_none", "acc_fb_all", "acc_fb_none",
           "baits", "coins", "titles", "log"}

\* The faults that can change a call drawing `bag` from pool `pool_id` (a fault at a
\* repository call the request never makes is no fault).
FaultsFor(pool_id, bag) ==
    IF pool_id \notin DOMAIN Pools \/ bag = EmptyBag THEN {"none"}
    ELSE LET has(kind) == \E i \in DOMAIN bag :
                             bag[i] > 0 /\ Pools[pool_id].items[i].item_type = kind
         IN {"none", "debit", "log"}
            \cup (IF has("rod") THEN {"rod_fb_all", "rod_fb_none"} ELSE {})
            \cup (IF has("accessory") THEN {"acc_fb_all", "acc_fb_none"} ELSE {})
            \cup (IF has("bait") THEN {"baits"} ELSE {})
            \cup (IF has("coins") THEN {"coins"} ELSE {})
            \cup (IF has("titles") THEN {"titles"} ELSE {})

\* _batch_insert_*_instances: one transaction, all rows or an exception.
BatchInsert(tbl_u, data) == [t \in DOMAIN tbl_u |-> tbl_u[t] + data[t]]

\* _fallback_add_*_instances: every instance is tried once, failures are skipped.
FallbackAdd(tbl_u, data, each_ok) ==
    [tbl |-> IF each_ok THEN BatchInsert(tbl_u, data) ELSE tbl_u,
     inserted |-> IF each_ok THEN SumOver(data, DOMAIN data) ELSE 0]

\* batch_add_rod_instances / batch_add_accessory_instances for one user's rows
\* (instances counted per template); mode: "bulk", "fb_all" or "fb_none".
BatchAddInstances(tbl_u, data, mode) ==
    IF SumOver(data, DOMAIN data) = 0 THEN [tbl |-> tbl_u, inserted |-> 0]
    ELSE IF mode = "bulk"
         THEN [tbl |-> BatchInsert(tbl_u, data), inserted |-> SumOver(data, DOMAIN data)]
         ELSE FallbackAdd(tbl_u, data, mode = "fb_all")

\* batch_update_bait_quantities on one user's rows (a partial function bait_id -> quantity).
BatchUpdateBaitQuantities(inv_u, updates) ==
    LET touched == {b \in DOMAIN updates :
                       updates[b] # 0 /\ (b \in DOMAIN inv_u \/ updates[b] > 0)}
    IN [b \in DOMAIN inv_u \cup touched |->
           IF b \in touched
           THEN (IF b \in DOMAIN inv_u THEN Max(0, inv_u[b] + updates[b]) ELSE updates[b])
           ELSE inv_u[b]]

\* ------------------------------------------------------------------ aggregation

\* aggregated_rewards before the loop.
EmptyRewards == [rods |-> << >>, accessories |-> << >>, baits |-> << >>, coins |-> 0,
                 titles |-> {}]

\* Mutant: a bait quantity replaces the quantity collected for that bait so far.
AggregateOneOverwrites(rewards, item) ==
    IF item.item_type = "rod" THEN [rewards EXCEPT !.rods = Append(@, item)]
    ELSE IF item.item_type = "accessory" THEN [rewards EXCEPT !.accessories = Append(@, item)]
    ELSE IF item.item_type = "bait"
    THEN [rewards EXCEPT !.baits =
             [b \in DOMAIN @ \cup {item.item_id} |->
                 IF b = item.item_id THEN item.quantity ELSE @[b]]]
    ELSE IF item.item_type = "coins" THEN [rewards EXCEPT !.coins = @ + item.quantity]
    ELSE IF item.item_type = "titles" THEN [rewards EXCEPT !.titles = @ \cup {item.item_id}]
    ELSE rewards

\* One iteration of the aggregation loop: a rod or accessory is appended, a bait
\* quantity is added under its id (a defaultdict starting at 0), a coin quantity is
\* added to the total, a title id is added to the set.
AggregateOne(rewards, item) ==
    IF item.item_type = "rod" THEN [rewards EXCEPT !.rods = Append(@, item)]
    ELSE IF item.item_type = "accessory" THEN [rewards EXCEPT !.accessories = Append(@, item)]
    ELSE IF item.item_type = "bait"
    THEN [rewards EXCEPT !.baits =
             [b \in DOMAIN @ \cup {item.item_id} |->
                 (IF b \in DOMAIN @ THEN @[b] ELSE 0)
                 + (IF b = item.item_id THEN item.quantity ELSE 0)]]
    ELSE IF item.item_type = "coins" THEN [rewards EXCEPT !.coins = @ + item.quantity]
    ELSE IF item.item_type = "titles" THEN [rewards EXCEPT !.titles = @ \cup {item.item_id}]
    ELSE rewards

\* The aggregation loop over draw_results from entry i on.
RECURSIVE AggregateWalk(_, _, _)
AggregateWalk(rewards, draw_results, i) ==
    IF i > Len(draw_results) THEN rewards
    ELSE AggregateWalk(AggregateOne(rewards, draw_results[i]), draw_results, i + 1)

\* Phase 1 of _grant_rewards_batch.
Aggregate(draw_results) == AggregateWalk(EmptyRewards, draw_results, 1)

\* ------------------------------------------------------------------ GachaService

\* Indices of the pool entries of one kind that were drawn at least once.
Drawn(items, bag, kind) ==
    {i \in DOMAIN items : items[i].item_type = kind /\ bag[i] > 0}

\* Number of drawn units per template id, over the given entries.
UnitsPerId(items, bag, idx, ids) ==
    [t \in ids |-> SumOver([i \in idx |-> IF items[i].item_id = t THEN bag[i] ELSE 0], idx)]

\* aggregated_rewards["baits"]: bait_id -> summed quantity.
AggregatedBaits(items, bag) ==
    LET idx == Drawn(items, bag, "bait")
    IN [b \in {items[i].item_id : i \in idx} |->
           SumOver([i \in idx |-> IF items[i].item_id = b
                                  THEN bag[i] * items[i].quantity ELSE 0], idx)]

\* aggregated_rewards["coins"]
AggregatedCoins(items, bag) ==
    LET idx == Drawn(items, bag, "coins")
    IN SumOver([i \in idx |-> bag[i] * items[i].quantity], idx)

\* aggregated_rewards["titles"]
AggregatedTitles(items, bag) == {items[i].item_id : i \in Drawn(items, bag, "titles")}

\* _create_log_record
LogRecord(user_id, pool, item_type, item_id, quantity) ==
    [user_id |-> user_id, gacha_pool_id |-> pool, item_type |-> item_type,
     item_id |-> item_id, quantity |-> quantity]

\* An entry of granted_rewards (quantity is 1 where the source gives no such key).
Reward(type, id, quantity, rarity) ==
    [type |-> type, id |-> id, quantity |-> quantity, rarity |-> rarity]

Raised(acc) == [acc EXCEPT !.raised = TRUE]

\* Mutant: one descriptor per rod template instead of one per drawn rod.
StageRodsPerTemplate(acc, user_id, items, bag, fault) ==
    LET idx == {i \in Drawn(items, bag, "rod") : items[i].item_id \in DOMAIN RodTemplate}
        ins == BatchAddInstances(acc.db.rods[user_id],
                                 UnitsPerId(items, bag, idx, RodIds), "bulk")
    IN IF acc.raised \/ idx = {} THEN acc
       ELSE [acc EXCEPT
               !.db.rods[user_id] = ins.tbl,
               !.trace = Append(@, "rods"),
               !.results = BagAddAll(@, idx, [i \in idx |->
                   [e |-> Reward("rod", items[i].item_id, 1,
                                 RodTemplate[items[i].item_id].rarity), k |-> 1]]),
               !.logs = BagAddAll(@, idx, [i \in idx |->
                   [e |-> LogRecord(user_id, items[i].gacha_pool_id, "rod",
                                    items[i].item_id, items[i].quantity), k |-> bag[i]]])]

\* Rods: batch insert, then one descriptor and one log record per drawn rod.
StageRods(acc, user_id, items, bag, fault) ==
    LET idx == {i \in Drawn(items, bag, "rod") : items[i].item_id \in DOMAIN RodTemplate}
        mode == IF fault = "rod_fb_all" THEN "fb_all"
                ELSE IF fault = "rod_fb_none" THEN "fb_none" ELSE "bulk"
        ins == BatchAddInstances(acc.db.rods[user_id],
                                 UnitsPerId(items, bag, idx, RodIds), mode)
    IN IF acc.raised \/ idx = {} THEN acc
       ELSE [acc EXCEPT
               !.db.rods[user_id] = ins.tbl,
               !.trace = Append(@, "rods"),
               !.results = BagAddAll(@, idx, [i \in idx |->
                   [e |-> Reward("rod", items[i].item_id, 1,
                                 RodTemplate[items[i].item_id].rarity), k |-> bag[i]]]),
               !.logs = BagAddAll(@, idx, [i \in idx |->
                   [e |-> LogRecord(user_id, items[i].gacha_pool_id, "rod",
                                    items[i].item_id, items[i].quantity), k |-> bag[i]]])]

\* Accessories: as rods.
StageAccessories(acc, user_id, items, bag, fault) ==
    LET idx == {i \in Drawn(items, bag, "accessory") :
                   items[i].item_id \in DOMAIN AccessoryTemplate}
        mode == IF fault = "acc_fb_all" THEN "fb_all"
                ELSE IF fault = "acc_fb_none" THEN "fb_none" ELSE "bulk"
        ins == BatchAddInstances(acc.db.accs[user_id],
                                 UnitsPerId(items, bag, idx, AccessoryIds), mode)
    IN IF acc.raised \/ idx = {} THEN acc
       ELSE [acc EXCEPT
               !.db.accs[user_id] = ins.tbl,
               !.trace = Append(@, "accessories"),
               !.results = BagAddAll(@, idx, [i \in idx |->
                   [e |-> Reward("accessory", items[i].item_id, 1,
                                 AccessoryTemplate[items[i].item_id].rarity), k |-> bag[i]]]),
               !.logs = BagAddAll(@, idx, [i \in idx |->
                   [e |-> LogRecord(user_id, items[i].gacha_pool_id, "accessory",
                                    items[i].item_id, items[i].quantity), k |-> bag[i]]])]

\* Bait: one batch update of the summed quantities, one descriptor and one log
\* record per bait id.
StageBaits(acc, user_id, items, bag, fault) ==
    LET agg == AggregatedBaits(items, bag)
        shown == {b \in DOMAIN agg : b \in DOMAIN BaitTemplate /\ agg[b] > 0}
    IN IF acc.raised \/ DOMAIN agg = {} THEN acc
       ELSE IF fault = "baits" THEN Raised(acc)
       ELSE [acc EXCEPT
               !.db.bait[user_id] = BatchUpdateBaitQuantities(@, agg),
               !.trace = Append(@, "baits"),
               !.results = BagAddAll(@, shown, [b \in shown |->
                   [e |-> Reward("bait", b, agg[b], BaitTemplate[b].rarity), k |-> 1]]),
               !.logs = BagAddAll(@, shown, [b \in shown |->
                   [e |-> LogRecord(user_id, 0, "bait", b, agg[b]), k |-> 1]])]

\* Coins: the user is read again and the sum is added in one update.
StageCoins(acc, user_id, items, bag, fault) ==
    LET agg == AggregatedCoins(items, bag)
    IN IF acc.raised \/ ~(agg > 0) THEN acc
       ELSE IF fault = "coins" THEN Raised(acc)
       ELSE [acc EXCEPT
               !.db.coins[user_id] = @ + agg,
               !.trace = Append(@, "coins"),
               !.results = BagAdd(@, Reward("coins", 0, agg, 1), 1),
               !.logs = BagAdd(@, LogRecord(user_id, 0, "coins", 0, agg), 1)]

\* Mutant: one grant_title_to_user call per title outcome drawn.
StageTitlesPerUnit(acc, user_id, items, bag, fault) ==
    LET ids == {t \in AggregatedTitles(items, bag) : t \in TitleTemplate}
        units == UnitsPerId(items, bag, Drawn(items, bag, "titles"), ids)
    IN IF acc.raised \/ ids = {} THEN acc
       ELSE IF fault = "titles" THEN Raised(acc)
       ELSE [acc EXCEPT
               !.db.titles[user_id] = UNION {GrantTitleToUser(@, t) : t \in ids},
               !.title_calls = BagAddAll(@, ids, [t \in ids |-> [e |-> t, k |-> units[t]]]),
               !.trace = Append(@, "titles"),
               !.results = BagAddAll(@, ids, [t \in ids |->
                   [e |-> Reward("title", t, 1, 0), k |-> 1]]),
               !.logs = BagAddAll(@, ids, [t \in ids |->
                   [e |-> LogRecord(user_id, 0, "titles", t, 1), k |-> 1]])]

\* Titles: one grant_title_to_user call per element of the set of title ids that
\* has a template; title_calls counts the calls per title id.
StageTitles(acc, user_id, items, bag, fault) ==
    LET ids == {t \in AggregatedTitles(items, bag) : t \in TitleTemplate}
    IN IF acc.raised \/ ids = {} THEN acc
       ELSE IF fault = "titles" THEN Raised(acc)
       ELSE [acc EXCEPT
               !.db.titles[user_id] = UNION {GrantTitleToUser(@, t) : t \in ids},
               !.title_calls = BagAddAll(@, ids, [t \in ids |-> [e |-> t, k |-> 1]]),
               !.trace = Append(@, "titles"),
               !.results = BagAddAll(@, ids, [t \in ids |->
                   [e |-> Reward("title", t, 1, 0), k |-> 1]]),
               !.logs = BagAddAll(@, ids, [t \in ids |->
                   [e |-> LogRecord(user_id, 0, "titles", t, 1), k |-> 1]])]

\* The collected log records are written last.
StageLog(acc, fault) ==
    IF acc.raised \/ acc.logs = EmptyBag THEN acc
    ELSE IF fault = "log" THEN Raised(acc)
    ELSE [acc EXCEPT !.db.log = BagUnion(@, acc.logs), !.trace = Append(@, "log")]

\* _grant_rewards_batch: the kinds in the fixed order, no rollback across kinds
\* (each stage's result is bound as a value before the next stage reads it).
GrantRewardsBatch(db, user_id, items, bag, fault) ==
    LET a0 == {[db |-> db, results |-> EmptyBag, logs |-> EmptyBag, trace |-> << >>,
                title_calls |-> EmptyBag, raised |-> FALSE]}
        a1 == {StageRods(a, user_id, items, bag, fault) : a \in a0}
        a2 == {StageAccessories(a, user_id, items, bag, fault) : a \in a1}
        a3 == {StageBaits(a, user_id, items, bag, fault) : a \in a2}
        a4 == {StageCoins(a, user_id, items, bag, fault) : a \in a3}
        a5 == {StageTitles(a, user_id, items, bag, fault) : a \in a4}
    IN CHOOSE r \in {StageLog(a, fault) : a \in a5} : TRUE

\* A failure return of perform_draw: nothing was touched.
DrawFailure(db, message) ==
    [status |-> "fail", message |-> message, db |-> db, results |-> EmptyBag,
     trace |-> << >>, title_calls |-> EmptyBag]

\* Mutant: the debit is computed but not written.
DebitNotPersisted(db, user_id, total_cost) == db

\* user.coins -= total_cost; user_repo.update(user)
Debit(db, user_id, total_cost) == [db EXCEPT !.coins[user_id] = @ - total_cost]

\* Mutant: the debit is written before the balance is checked.
PerformDrawDebitFirst(db, user_id, pool_id, num_draws, bag, fault) ==
    IF user_id \notin Registered THEN DrawFailure(db, "no_user")
    ELSE IF pool_id \notin DOMAIN Pools \/ Pools[pool_id].items = << >>
    THEN DrawFailure(db, "no_pool")
    ELSE IF ~CanAfford(db.coins[user_id], Pools[pool_id].cost_coins * num_draws)
    THEN DrawFailure(Debit(db, user_id, Pools[pool_id].cost_coins * num_draws), "no_coins")
    ELSE CHOOSE r \in
            {[status |-> IF g.raised THEN "raise" ELSE "success",
              message |-> IF g.raised THEN "error" ELSE "ok",
              db |-> g.db,
              results |-> IF g.raised THEN EmptyBag ELSE g.results,
              title_calls |-> g.title_calls,
              trace |-> << "draw", "debit" >> \o g.trace] :
             g \in {GrantRewardsBatch(
                       Debit(db, user_id, Pools[pool_id].cost_coins * num_draws),
                       user_id, Pools[pool_id].items, bag, fault)}} : TRUE

\* Mutant: the rewards are granted before the debit is written.
PerformDrawGrantFirst(db, user_id, pool_id, num_draws, bag, fault) ==
    IF user_id \notin Registered THEN DrawFailure(db, "no_user")
    ELSE IF pool_id \notin DOMAIN Pools \/ Pools[pool_id].items = << >>
    THEN DrawFailure(db, "no_pool")
    ELSE IF ~CanAfford(db.coins[user_id], Pools[pool_id].cost_coins * num_draws)
    THEN DrawFailure(db, "no_coins")
    ELSE CHOOSE r \in
            {[status |-> IF g.raised THEN "raise" ELSE "success",
              message |-> IF g.raised THEN "error" ELSE "ok",
              db |-> IF g.raised THEN g.db
                     ELSE Debit(g.db, user_id, Pools[pool_id].cost_coins * num_draws),
              results |-> IF g.raised THEN EmptyBag ELSE g.results,
              title_calls |-> g.title_calls,
              trace |-> << "draw" >> \o g.trace \o
                        (IF g.raised THEN << >> ELSE << "debit" >>)] :
             g \in {GrantRewardsBatch(db, user_id, Pools[pool_id].items, bag, fault)}} : TRUE

\* perform_draw, with the draws' outcome (bag) and the store fault as inputs.
PerformDraw(db, user_id, pool_id, num_draws, bag, fault) ==
    IF user_id \notin Registered THEN DrawFailure(db, "no_user")
    ELSE IF pool_id \notin DOMAIN Pools \/ Pools[pool_id].items = << >>
    THEN DrawFailure(db, "no_pool")
    ELSE IF ~CanAfford(db.coins[user_id], Pools[pool_id].cost_coins * num_draws)
    THEN DrawFailure(db, "no_coins")
    ELSE IF BagSize(bag) = 0 THEN DrawFailure(db, "no_draw")
    ELSE IF fault = "debit"
    THEN [status |-> "raise", message |-> "error", db |-> db, results |-> EmptyBag,
          trace |-> << "draw" >>, title_calls |-> EmptyBag]
    ELSE CHOOSE r \in
            {[status |-> IF g.raised THEN "raise" ELSE "success",
              message |-> IF g.raised THEN "error" ELSE "ok",
              db |-> g.db,
              results |-> IF g.raised THEN EmptyBag ELSE g.results,
              title_calls |-> g.title_calls,
              trace |-> << "draw", "debit" >> \o g.trace] :
             g \in {GrantRewardsBatch(
                       Debit(db, user_id, Pools[pool_id].cost_coins * num_draws),
                       user_id, Pools[pool_id].items, bag, fault)}} : TRUE

\* ------------------------------------------------------------------ stackable rows

\* Bait and fish ids, call arguments and base values the repository is driven with.
StoreBaitIds == {1, 2}
FishIds == {1, 2}
Deltas == {-2, -1, 0, 1}
\* Quantities add_fish_to_inventory is called with.
Quantities == Deltas \cup {2}
FishBaseValue == [f \in FishIds |-> 10 * f]

\* INSERT ... VALUES (?, ?, MAX(0, ?)) ON CONFLICT DO UPDATE SET quantity = MAX(0, quantity + ?)
UpsertClamped(rows, id, delta) ==
    IF id \in DOMAIN rows THEN [rows EXCEPT ![id] = Max(0, @ + delta)]
    ELSE rows @@ (id :> Max(0, delta))

\* DELETE ... WHERE user_id = ? AND quantity <= 0
DeleteNonPositive(rows) == [i \in {j \in DOMAIN rows : rows[j] > 0} |-> rows[i]]

\* update_bait_quantity on one user's rows
UpdateBaitQuantity(rows, bait_id, delta) ==
    DeleteNonPositive(UpsertClamped(rows, bait_id, delta))

\* update_fish_quantity on one user's rows
UpdateFishQuantity(rows, fish_id, delta) ==
    DeleteNonPositive(UpsertClamped(rows, fish_id, delta))

\* add_fish_to_inventory: INSERT ... ON CONFLICT DO UPDATE SET quantity = quantity + excluded.quantity
AddFishToInventory(rows, fish_id, quantity) ==
    IF fish_id \in DOMAIN rows THEN [rows EXCEPT ![fish_id] = @ + quantity]
    ELSE rows @@ (fish_id :> quantity)

\* The statements of sell_fish_keep_one that can raise: BEGIN, the SELECT, the UPDATE
\* and the COMMIT.
SellSteps == 4

\* The rows the SELECT of sell_fish_keep_one returns.
ItemsToSell(rows) == {f \in DOMAIN rows : rows[f] > 1}

\* The places a sell_fish_keep_one call on these rows can fail (0: nowhere); with
\* nothing to sell it returns after the SELECT.
SellFailPoints(rows) == IF ItemsToSell(rows) = {} THEN 0..2 ELSE 0..SellSteps

\* Mutant: an exception leaves the UPDATE in place.
SellFishKeepOneNoRollback(rows, fail_at) ==
    [rows |-> IF fail_at \in {0, SellSteps}
              THEN [f \in DOMAIN rows |-> IF rows[f] > 1 THEN 1 ELSE rows[f]]
              ELSE rows,
     sold_value |-> IF fail_at # 0 THEN 0
                    ELSE SumOver([f \in ItemsToSell(rows) |->
                                     (rows[f] - 1) * FishBaseValue[f]], ItemsToSell(rows)),
     raised |-> fail_at # 0]

\* Mutant: the UPDATE sets every row of the user to 1.
SellFishKeepOneClampsAll(rows, fail_at) ==
    IF fail_at # 0 THEN [rows |-> rows, sold_value |-> 0, raised |-> TRUE]
    ELSE [rows |-> IF ItemsToSell(rows) = {} THEN rows ELSE [f \in DOMAIN rows |-> 1],
          sold_value |-> SumOver([f \in ItemsToSell(rows) |->
                                     (rows[f] - 1) * FishBaseValue[f]], ItemsToSell(rows)),
          raised |-> FALSE]

\* sell_fish_keep_one on one user's rows: in one transaction, the value of what is
\* sold is summed over the rows above 1 and those rows are set to 1; an exception
\* rolls back and is raised (fail_at: the statement that raises, 0 for none).
SellFishKeepOne(rows, fail_at) ==
    LET items_to_sell == ItemsToSell(rows)
    IN IF fail_at # 0 THEN [rows |-> rows, sold_value |-> 0, raised |-> TRUE]
       ELSE [rows |-> [f \in DOMAIN rows |-> IF rows[f] > 1 THEN 1 ELSE rows[f]],
             sold_value |-> SumOver([f \in items_to_sell |->
                                        (rows[f] - 1) * FishBaseValue[f]], items_to_sell),
             raised |-> FALSE]

\* One iteration of the loop of batch_update_bait_quantities.
BatchUpdateOne(rows, bait_id, delta_quantity) ==
    IF delta_quantity = 0 THEN rows
    ELSE IF bait_id \in DOMAIN rows
    THEN [rows EXCEPT ![bait_id] = Max(0, @ + delta_quantity)]
    ELSE IF delta_quantity > 0 THEN rows @@ (bait_id :> delta_quantity)
    ELSE rows

\* The loop from entry i on, inside the transaction; a statement of entry fail_at
\* raises (an entry with delta 0 executes no statement).
RECURSIVE BatchUpdateWalk(_, _, _, _)
BatchUpdateWalk(rows, bait_updates, i, fail_at) ==
    IF i > Len(bait_updates) THEN [rows |-> rows, raised |-> FALSE]
    ELSE IF i = fail_at /\ bait_updates[i][2] # 0 THEN [rows |-> rows, raised |-> TRUE]
    ELSE BatchUpdateWalk(BatchUpdateOne(rows, bait_updates[i][1], bait_updates[i][2]),
                         bait_updates, i + 1, fail_at)

\* Mutant: the rows written before the failure stay.
BatchUpdateTxnNoRollback(rows, bait_updates, fail_at) ==
    BatchUpdateWalk(rows, bait_updates, 1, fail_at)

\* batch_update_bait_quantities with a list of (bait_id, delta): BEGIN, the loop,
\* COMMIT, or ROLLBACK and raise; fail_at = Len + 1 is a failing COMMIT.
BatchUpdateTxn(rows, bait_updates, fail_at) ==
    IF bait_updates = << >> THEN [rows |-> rows, raised |-> FALSE]
    ELSE LET w == BatchUpdateWalk(rows, bait_updates, 1, fail_at)
         IN IF w.raised \/ fail_at = Len(bait_updates) + 1
            THEN [rows |-> rows, raised |-> TRUE]
            ELSE w

\* update_bait_quantity applied to each pair of the list in order, from entry i on.
RECURSIVE SequentialUpdates(_, _, _)
SequentialUpdates(rows, bait_updates, i) ==
    IF i > Len(bait_updates) THEN rows
    ELSE SequentialUpdates(UpdateBaitQuantity(rows, bait_updates[i][1], bait_updates[i][2]),
                           bait_updates, i + 1)

\* ------------------------------------------------------------------ equipment rows

\* A row of user_rods / user_accessories: [id, user_id, tid, is_equipped].
\* lastrowid of an INSERT: one above the largest id of the table.
NextId(rows) == IF rows = {} THEN 1 ELSE 1 + CHOOSE m \in {r.id : r \in rows} :
                                                \A r \in rows : r.id <= m

\* add_rod_instance / add_accessory_instance: the row is inserted with is_equipped = 0.
AddInstance(rows, user_id, tid) ==
    rows \cup {[id |-> NextId(rows), user_id |-> user_id, tid |-> tid,
                is_equipped |-> FALSE]}

\* delete_rod_instance / delete_accessory_instance: by instance id alone.
DeleteInstance(rows, instance_id) == {r \in rows : r.id # instance_id}

\* The rows of the multi-row INSERT of _batch_insert_*_instances, each with is_equipped = 0.
RECURSIVE InsertAll(_, _, _, _)
InsertAll(rows, user_id, data, i) ==
    IF i > Len(data) THEN rows
    ELSE InsertAll(AddInstance(rows, user_id, data[i]), user_id, data, i + 1)

\* How the bulk transaction can end.
BulkFaults == {"none", "execute", "commit"}

\* Mutant: a failed COMMIT leaves the rows of the INSERT in the table.
BatchInsertInstancesNoRollback(rows, user_id, data, fail) ==
    IF fail = "execute" THEN [rows |-> rows, raised |-> TRUE, ids |-> 0]
    ELSE [rows |-> InsertAll(rows, user_id, data, 1), raised |-> fail # "none",
          ids |-> IF fail = "none" THEN Len(data) ELSE 0]

\* _batch_insert_rod_instances / _batch_insert_accessory_instances: BEGIN, one INSERT,
\* COMMIT; any exception rolls back and is raised again.
BatchInsertInstances(rows, user_id, data, fail) ==
    IF fail = "none"
    THEN [rows |-> InsertAll(rows, user_id, data, 1), raised |-> FALSE, ids |-> Len(data)]
    ELSE [rows |-> rows, raised |-> TRUE, ids |-> 0]

\* The loop of _fallback_add_*_instances from entry i on: add_*_instance per entry,
\* an exception is logged and the loop continues. each_ok[i] tells whether the i-th
\* insert succeeds; tried lists the entries attempted, in order.
RECURSIVE FallbackWalk(_, _, _, _, _)
FallbackWalk(acc, user_id, data, each_ok, i) ==
    IF i > Len(data) THEN acc
    ELSE FallbackWalk(
             [rows |-> IF each_ok[i] THEN AddInstance(acc.rows, user_id, data[i])
                       ELSE acc.rows,
              inserted |-> IF each_ok[i] THEN acc.inserted + 1 ELSE acc.inserted,
              tried |-> Append(acc.tried, i)],
             user_id, data, each_ok, i + 1)

\* _fallback_add_rod_instances / _fallback_add_accessory_instances.
FallbackAddInstances(rows, user_id, data, each_ok) ==
    FallbackWalk([rows |-> rows, inserted |-> 0, tried |-> << >>], user_id, data, each_ok, 1)

\* batch_add_rod_instances / batch_add_accessory_instances on the table's rows. The
\* method returns a list in both modes: its length is `returned`, and nothing else
\* reaches the caller (signal).
BatchAddInstanceRows(rows, user_id, data, fail, each_ok) ==
    IF data = << >>
    THEN [rows |-> rows, returned |-> 0, fell_back |-> FALSE, bulk_left |-> 0,
          tried |-> << >>, signal |-> "none"]
    ELSE LET b == BatchInsertInstances(rows, user_id, data, fail)
         IN IF ~b.raised
            THEN [rows |-> b.rows, returned |-> b.ids, fell_back |-> FALSE,
                  bulk_left |-> 0, tried |-> << >>, signal |-> "none"]
            ELSE LET f == FallbackAddInstances(b.rows, user_id, data, each_ok)
                 IN [rows |-> f.rows, returned |-> f.inserted, fell_back |-> TRUE,
                     bulk_left |-> Cardinality(b.rows) - Cardinality(rows),
                     tried |-> f.tried, signal |-> "none"]

\* Number of equipped instances of a user in a table.
EquippedCount(rows, user_id) ==
    Cardinality({r \in rows : r.user_id = user_id /\ r.is_equipped})

\* The largest number of equipped instances any user has in either table.
MaxEquipped(rods, accs) ==
    CHOOSE m \in 0..(Cardinality(rods) + Cardinality(accs)) :
        /\ \A u \in UserIds : EquippedCount(rods, u) <= m /\ EquippedCount(accs, u) <= m
        /\ \E u \in UserIds : EquippedCount(rods, u) = m \/ EquippedCount(accs, u) = m

\* UPDATE ... SET is_equipped = 0 WHERE user_id = ?
ResetEquipped(rows, user_id) ==
    {IF r.user_id = user_id THEN [r EXCEPT !.is_equipped = FALSE] ELSE r : r \in rows}

\* UPDATE ... SET is_equipped = 1 WHERE <instance id> = ? AND user_id = ?; None is 0.
SetEquipped(rows, user_id, instance_id) ==
    {IF r.user_id = user_id /\ r.id = instance_id /\ instance_id # 0
     THEN [r EXCEPT !.is_equipped = TRUE] ELSE r : r \in rows}

\* The statements of set_equipment_status, then its COMMIT.
EquipSteps == 5

\* Mutant: the new instances are set without the two resets.
SetEquipmentStatusNoReset(rods, accs, user_id, rod_instance_id, accessory_instance_id, fail_at) ==
    LET r == SetEquipped(rods, user_id, rod_instance_id)
        a == SetEquipped(accs, user_id, accessory_instance_id)
    IN IF fail_at # 0
       THEN [rods |-> rods, accs |-> accs, raised |-> TRUE, seen |-> MaxEquipped(rods, accs)]
       ELSE [rods |-> r, accs |-> a, raised |-> FALSE,
             seen |-> Max(MaxEquipped(rods, accs), MaxEquipped(r, a))]

\* set_equipment_status: on one connection, reset the user's rods, reset the user's
\* accessories, set the rod, set the accessory, commit. fail_at is the statement that
\* raises (5: the COMMIT, 0: none); the connection's context manager then rolls back.
\* seen is the largest number of equipped instances of one user in one table over the
\* states of the call, the uncommitted ones included.
SetEquipmentStatus(rods, accs, user_id, rod_instance_id, accessory_instance_id, fail_at) ==
    LET r1 == ResetEquipped(rods, user_id)
        a2 == ResetEquipped(accs, user_id)
        r3 == SetEquipped(r1, user_id, rod_instance_id)
        a4 == SetEquipped(a2, user_id, accessory_instance_id)
        last == IF fail_at = 0 THEN EquipSteps - 1 ELSE fail_at - 1
        step(k) == IF k = 0 THEN MaxEquipped(rods, accs)
                   ELSE IF k = 1 THEN MaxEquipped(r1, accs)
                   ELSE IF k = 2 THEN MaxEquipped(r1, a2)
                   ELSE IF k = 3 THEN MaxEquipped(r3, a2)
                   ELSE MaxEquipped(r3, a4)
        counts == {step(k) : k \in 0..last}
        seen == CHOOSE m \in counts : \A c \in counts : c <= m
    IN IF fail_at # 0
       THEN [rods |-> rods, accs |-> accs, raised |-> TRUE, seen |-> seen]
       ELSE [rods |-> r3, accs |-> a4, raised |-> FALSE, seen |-> seen]

\* ------------------------------------------------------------------ MarketService

\* config market.listing_tax_rate, in percent (the default).
ListingTaxRatePercent == 2

\* int(price * tax_rate): the product cut to a whole number.
TaxCost(price) == (price * ListingTaxRatePercent) \div 100

\* The rows the market calls read and write, as one value.
MarketFailure(m, message) == [success |-> FALSE, message |-> message, db |-> m]

\* market_id of a new listing (assigned by the table): one above the largest.
NextMarketId(ls) == IF ls = {} THEN 1 ELSE 1 + CHOOSE k \in {l.market_id : l \in ls} :
                                               \A l \in ls : l.market_id <= k

\* next(i for i in user_items if <instance id> == item_instance_id): the rows of the
\* user with that id (at most one).
OwnedInstance(rows, user_id, item_instance_id) ==
    {r \in rows : r.user_id = user_id /\ r.id = item_instance_id}

\* The writes of put_item_on_sale: the instance is deleted, the tax debited and
\* logged, the listing created.
ListItem(m, user_id, item_type, item, price) ==
    LET tax_cost == TaxCost(price)
        left == m.coins[user_id] - tax_cost
    IN [success |-> TRUE, message |-> "listed",
        db |-> [coins |-> [m.coins EXCEPT ![user_id] = left],
                rods |-> IF item_type = "rod" THEN DeleteInstance(m.rods, item.id)
                         ELSE m.rods,
                accs |-> IF item_type = "accessory" THEN DeleteInstance(m.accs, item.id)
                         ELSE m.accs,
                tax |-> BagAdd(m.tax, [user_id |-> user_id, tax_amount |-> tax_cost,
                                       original_amount |-> price,
                                       balance_after |-> left], 1),
                listings |-> m.listings \cup
                    {[market_id |-> NextMarketId(m.listings), user_id |-> user_id,
                      item_type |-> item_type, item_id |-> item.tid, price |-> price]}]]

\* Mutant: an equipped instance is listed like any other.
PutItemOnSaleListsEquipped(m, user_id, item_type, item_instance_id, price) ==
    IF price <= 0 THEN MarketFailure(m, "bad_price")
    ELSE IF user_id \notin Registered THEN MarketFailure(m, "no_user")
    ELSE IF ~CanAfford(m.coins[user_id], TaxCost(price)) THEN MarketFailure(m, "no_coins")
    ELSE IF item_type \notin {"rod", "accessory"} THEN MarketFailure(m, "bad_type")
    ELSE LET found == OwnedInstance(IF item_type = "rod" THEN m.rods ELSE m.accs,
                                    user_id, item_instance_id)
         IN IF found = {} THEN MarketFailure(m, "not_owned")
            ELSE ListItem(m, user_id, item_type, CHOOSE i \in found : TRUE, price)

\* put_item_on_sale: the checks in the order of the code, then the writes.
PutItemOnSale(m, user_id, item_type, item_instance_id, price) ==
    IF price <= 0 THEN MarketFailure(m, "bad_price")
    ELSE IF user_id \notin Registered THEN MarketFailure(m, "no_user")
    ELSE IF ~CanAfford(m.coins[user_id], TaxCost(price)) THEN MarketFailure(m, "no_coins")
    ELSE IF item_type \notin {"rod", "accessory"} THEN MarketFailure(m, "bad_type")
    ELSE LET found == OwnedInstance(IF item_type = "rod" THEN m.rods ELSE m.accs,
                                    user_id, item_instance_id)
         IN IF found = {} THEN MarketFailure(m, "not_owned")
            ELSE IF (CHOOSE i \in found : TRUE).is_equipped
            THEN MarketFailure(m, "equipped")
            ELSE ListItem(m, user_id, item_type, CHOOSE i \in found : TRUE, price)

\* Mutant: the seller is paid the price less the listing tax.
TradeTaxed(m, buyer_id, listing) ==
    [success |-> TRUE, message |-> "bought",
     db |-> [m EXCEPT
               !.coins = [@ EXCEPT ![buyer_id] = @ - listing.price,
                                   ![listing.user_id] =
                                       @ + listing.price - TaxCost(listing.price)],
               !.rods = IF listing.item_type = "rod"
                        THEN AddInstance(@, buyer_id, listing.item_id) ELSE @,
               !.accs = IF listing.item_type = "accessory"
                        THEN AddInstance(@, buyer_id, listing.item_id) ELSE @,
               !.listings = @ \ {listing}]]

\* The writes of buy_market_item: the buyer pays, the seller is paid, the buyer gets
\* a new instance, the listing is removed.
Trade(m, buyer_id, listing) ==
    [success |-> TRUE, message |-> "bought",
     db |-> [m EXCEPT
               !.coins = [@ EXCEPT ![buyer_id] = @ - listing.price,
                                   ![listing.user_id] = @ + listing.price],
               !.rods = IF listing.item_type = "rod"
                        THEN AddInstance(@, buyer_id, listing.item_id) ELSE @,
               !.accs = IF listing.item_type = "accessory"
                        THEN AddInstance(@, buyer_id, listing.item_id) ELSE @,
               !.listings = @ \ {listing}]]

\* Mutant: the buyer's balance is not checked against the price.
BuyMarketItemNoCheck(m, buyer_id, market_id) ==
    LET found == {l \in m.listings : l.market_id = market_id}
    IN IF buyer_id \notin Registered THEN MarketFailure(m, "no_buyer")
       ELSE IF found = {} THEN MarketFailure(m, "no_listing")
       ELSE LET listing == CHOOSE l \in found : TRUE
            IN IF buyer_id = listing.user_id THEN MarketFailure(m, "own_listing")
               ELSE IF listing.user_id \notin Registered
               THEN MarketFailure(m, "no_seller")
               ELSE Trade(m, buyer_id, listing)

\* buy_market_item: the checks in the order of the code, then the writes.
BuyMarketItem(m, buyer_id, market_id) ==
    LET found == {l \in m.listings : l.market_id = market_id}
    IN IF buyer_id \notin Registered THEN MarketFailure(m, "no_buyer")
       ELSE IF found = {} THEN MarketFailure(m, "no_listing")
       ELSE LET listing == CHOOSE l \in found : TRUE
            IN IF buyer_id = listing.user_id THEN MarketFailure(m, "own_listing")
               ELSE IF listing.user_id \notin Registered
               THEN MarketFailure(m, "no_seller")
               ELSE IF ~CanAfford(m.coins[buyer_id], listing.price)
               THEN MarketFailure(m, "no_coins")
               ELSE Trade(m, buyer_id, listing)

\* remove_item_from_market: the checks, then the item goes back to the user's
\* inventory as a new instance and the listing is removed.
RemoveItemFromMarket(m, user_id, market_id) ==
    LET found == {l \in m.listings : l.market_id = market_id}
    IN IF user_id \notin Registered THEN MarketFailure(m, "no_user")
       ELSE IF found = {} THEN MarketFailure(m, "no_listing")
       ELSE LET listing == CHOOSE l \in found : TRUE
            IN IF user_id # listing.user_id THEN MarketFailure(m, "not_owner")
               ELSE IF listing.item_type \notin {"rod", "accessory"}
               THEN MarketFailure(m, "bad_type")
               ELSE [success |-> TRUE, message |-> "removed",
                     db |-> [m EXCEPT
                               !.rods = IF listing.item_type = "rod"
                                        THEN AddInstance(@, user_id, listing.item_id) ELSE @,
                               !.accs = IF listing.item_type = "accessory"
                                        THEN AddInstance(@, user_id, listing.item_id) ELSE @,
                               !.listings = @ \ {listing}]]

\* The store calls that write, per service call, in the order of the code:
\* put_item_on_sale deletes the instance, updates the seller, adds the tax record,
\* adds the listing; buy_market_item updates the buyer, updates the seller, adds
\* the instance, removes the listing; remove_item_from_market adds the instance,
\* removes the listing.
PutSteps == 4
BuySteps == 4
RemoveSteps == 2

\* A call whose fail_at-th writing store call raises: the earlier ones are
\* committed (each store call commits on its own, the service has no transaction),
\* the exception leaves the service.
MarketRaised(db) == [success |-> FALSE, message |-> "raised", db |-> db]

\* put_item_on_sale in which the fail_at-th writing store call raises (0: none).
PutItemOnSaleAt(m, user_id, item_type, item_instance_id, price, fail_at) ==
    LET r == PutItemOnSale(m, user_id, item_type, item_instance_id, price)
    IN IF ~r.success \/ fail_at = 0 THEN r
       ELSE MarketRaised([rods |-> IF fail_at > 1 THEN r.db.rods ELSE m.rods,
                          accs |-> IF fail_at > 1 THEN r.db.accs ELSE m.accs,
                          coins |-> IF fail_at > 2 THEN r.db.coins ELSE m.coins,
                          tax |-> IF fail_at > 3 THEN r.db.tax ELSE m.tax,
                          listings |-> m.listings])

\* buy_market_item in which the fail_at-th writing store call raises (0: none).
BuyMarketItemAt(m, buyer_id, market_id, fail_at) ==
    LET r == BuyMarketItem(m, buyer_id, market_id)
    IN IF ~r.success \/ fail_at = 0 THEN r
       ELSE MarketRaised([coins |-> IF fail_at > 2 THEN r.db.coins
                                    ELSE IF fail_at > 1
                                    THEN [m.coins EXCEPT ![buyer_id] = r.db.coins[buyer_id]]
                                    ELSE m.coins,
                          rods |-> IF fail_at > 3 THEN r.db.rods ELSE m.rods,
                          accs |-> IF fail_at > 3 THEN r.db.accs ELSE m.accs,
                          tax |-> m.tax,
                          listings |-> m.listings])

\* remove_item_from_market in which the fail_at-th writing store call raises (0: none).
RemoveItemFromMarketAt(m, user_id, market_id, fail_at) ==
    LET r == RemoveItemFromMarket(m, user_id, market_id)
    IN IF ~r.success \/ fail_at = 0 THEN r
       ELSE MarketRaised([rods |-> IF fail_at > 1 THEN r.db.rods ELSE m.rods,
                          accs |-> IF fail_at > 1 THEN r.db.accs ELSE m.accs,
                          coins |-> m.coins,
                          tax |-> m.tax,
                          listings |-> m.listings])

\* ------------------------------------------------------------------ state

Handlers == {"h1", "h2"}

\* Balances users start with: "u1" has exactly 10000 draws' worth of pools 1 and 3,
\* "u2" cannot pay ten draws.
InitBalance == [u \in Registered |-> IF u = "u1" THEN 10000 ELSE 5]

MaxGacha == 2

\* Number of store outages met by the 10000-draw handlers in one run.
MaxFaults == 1
UltraRareShown == 15

VARIABLES
    coins,            \* users.coins: user_id -> balance
    userRods,         \* user_rods: user_id -> rod_id -> number of instances
    userAccessories,  \* user_accessories: user_id -> accessory_id -> number of instances
    baitInv,          \* user_bait_inventory: user_id -> (bait_id -> quantity), rows only
    userTitles,       \* user_titles: user_id -> set of title ids
    gachaRecords,     \* gacha_records: bag of audit rows
    lock,             \* FishingPlugin.ten_thousand_gacha_lock
    lockUser,         \* FishingPlugin.ten_thousand_gacha_user
    pc,               \* where each ten_thousand_gacha handler is suspended
    loc,              \* each running handler's local variables
    resp,             \* the last message a handler yielded
    ledger,           \* per running handler: what its calls did to the balance (history)
    lastDraw,         \* the most recent draw command's perform_draw call (history)
    gachaCount,       \* number of ordinary draw commands handled
    faultCount,       \* number of store outages the 10000-draw handlers met
    fishInv,          \* user_fish_inventory: user_id -> (fish_id -> quantity), rows only
    rodRows,          \* user_rods, row by row: instance id, owner, template, is_equipped
    accRows,          \* user_accessories, row by row
    lastStore,        \* the most recent direct repository call and its return (history)
    trip,             \* an add to an absent stackable pair, until the next call (history)
    storeOps,         \* number of direct repository calls made
    pick,             \* the most recent _perform_single_weighted_draw call (history)
    agg,              \* the aggregation phase of a _grant_rewards_batch call (history)
    listings,         \* market: the listings on sale
    taxRecords,       \* taxes: bag of tax records
    lastMarket,       \* the most recent MarketService call and its return (history)
    marketOps,        \* number of MarketService calls made
    buys              \* buy_market_item calls in progress, store call by store call

\* What the gacha commands never touch.
storeVars == << fishInv, rodRows, accRows, lastStore, trip, storeOps, pick, agg,
               listings, taxRecords, lastMarket, marketOps, buys >>

\* What only the market commands touch.
marketVars == << listings, taxRecords, lastMarket, marketOps, buys >>

vars == << coins, userRods, userAccessories, baitInv, userTitles, gachaRecords,
           lock, lockUser, pc, loc, resp, ledger, lastDraw, gachaCount, faultCount,
           storeVars >>

\* What only the gacha commands touch.
gachaVars == << coins, userTitles, gachaRecords, lock, lockUser, pc, loc, resp, ledger,
                lastDraw, gachaCount, faultCount >>

dbVars == << coins, userRods, userAccessories, baitInv, userTitles, gachaRecords >>

\* The persisted rows as one value.
DB == [coins |-> coins, rods |-> userRods, accs |-> userAccessories, bait |-> baitInv,
       titles |-> userTitles, log |-> gachaRecords]

SetDB(db) ==
    /\ coins' = db.coins
    /\ userRods' = db.rods
    /\ userAccessories' = db.accs
    /\ baitInv' = db.bait
    /\ userTitles' = db.titles
    /\ gachaRecords' = db.log

NoLocals ==
    [user_id |-> None, pool_id |-> 0, total_cost |-> 0, user_coins |-> 0, processed |-> 0,
     batch |-> 0, failed_at_batch |-> -1, total_results |-> EmptyBag, remaining_cost |-> 0]

NoResp == [handler |-> None, kind |-> "none", holder |-> None, completed |-> 0,
           refunded |-> 0]

NoLedger == [calls |-> 0, succeeded |-> 0, delta |-> 0, won |-> 0, debited |-> 0,
             credited |-> 0, admitted |-> FALSE]

NoDraw ==
    [caller |-> None, user_id |-> None, pool_id |-> 0, num_draws |-> 0, bag |-> EmptyBag,
     fault |-> "none", status |-> "none", message |-> "none", unchanged |-> TRUE, before |-> 0, after |-> 0,
     trace |-> << >>, title_calls |-> EmptyBag, rods |-> 0, accs |-> 0, bait |-> 0, titles |-> 0, logs |-> 0,
     results |-> 0, rod_logs |-> 0, accessory_logs |-> 0]

\* No repository call yet.
NoStore ==
    [op |-> "none", user |-> None, raised |-> FALSE, n |-> 0, fail_at |-> 0,
     written |-> 0, applied |-> 0, attempts |-> 0, each_once |-> TRUE, bulk_left |-> 0,
     returned |-> 0, added |-> 0, fell_back |-> FALSE, signal |-> "none",
     max_equipped |-> 0, replaced |-> FALSE, named |-> "none", as_sequential |-> TRUE,
     stray |-> FALSE]

\* No market call yet.
NoMarket == [op |-> "none", user_id |-> None, item_type |-> "none", id |-> 0, price |-> 0,
             success |-> FALSE, message |-> "none", fail_at |-> 0]

\* The users who buy in the runs where three users are registered.
Buyers == {"u2", "u3"}

\* A buy_market_item call not yet made: its position and its local variables
\* (the buyer, listing and seller objects it read), and what it did (history).
NoBuy == [pc |-> "idle", market_id |-> 0, buyer_coins |-> 0, listing |-> None,
          seller_coins |-> 0, success |-> FALSE, charged |-> FALSE, granted |-> 0]

\* No aggregation yet.
NoAggregate == [called |-> FALSE, draw_results |-> << >>, rewards |-> EmptyRewards]

\* No weighted draw yet.
NoPick == [called |-> FALSE, items |-> << >>, rand_val |-> 0, item |-> 0]

NoTrip == [op |-> "none", user |-> None, id |-> 0, delta |-> 0, closed |-> FALSE,
           bait |-> << >>, fish |-> << >>]

Init ==
    /\ coins = InitBalance
    /\ userRods = [u \in Registered |-> [t \in RodIds |-> 0]]
    /\ userAccessories = [u \in Registered |-> [t \in AccessoryIds |-> 0]]
    /\ baitInv = [u \in Registered |-> << >>]
    /\ userTitles = [u \in Registered |-> {}]
    /\ gachaRecords = EmptyBag
    /\ lock = FALSE
    /\ lockUser = None
    /\ pc = [h \in Handlers |-> "idle"]
    /\ loc = [h \in Handlers |-> NoLocals]
    /\ resp = NoResp
    /\ ledger = [h \in Handlers |-> NoLedger]
    /\ lastDraw = NoDraw
    /\ gachaCount = 0
    /\ faultCount = 0
    /\ fishInv = [u \in Registered |-> << >>]
    /\ rodRows = {}
    /\ accRows = {}
    /\ lastStore = NoStore
    /\ trip = NoTrip
    /\ storeOps = 0
    /\ pick = NoPick
    /\ agg = NoAggregate
    /\ listings = {}
    /\ taxRecords = EmptyBag
    /\ lastMarket = NoMarket
    /\ marketOps = 0
    /\ buys = [b \in Buyers |-> NoBuy]

\* Number of rows of gacha_records of one item type.
RecordsOf(log, item_type) ==
    LET S == {d \in DOMAIN log : d.item_type = item_type}
    IN SumOver([d \in S |-> log[d]], S)

\* What a perform_draw call did, measured on the rows before and after it.
DrawEffect(caller, db, user_id, pool_id, num_draws, bag, fault, r) ==
    LET known == user_id \in Registered
        total(f) == SumOver(f, DOMAIN f)
    IN [caller |-> caller, user_id |-> user_id, pool_id |-> pool_id,
        num_draws |-> num_draws, bag |-> bag, fault |-> fault, status |-> r.status,
        message |-> r.message, unchanged |-> (r.db = db),
        before |-> IF known THEN db.coins[user_id] ELSE 0,
        after |-> IF known THEN r.db.coins[user_id] ELSE 0,
        trace |-> r.trace, title_calls |-> r.title_calls,
        rods |-> IF known THEN total(r.db.rods[user_id]) - total(db.rods[user_id]) ELSE 0,
        accs |-> IF known THEN total(r.db.accs[user_id]) - total(db.accs[user_id]) ELSE 0,
        bait |-> IF known THEN total(r.db.bait[user_id]) - total(db.bait[user_id]) ELSE 0,
        titles |-> IF known
                   THEN Cardinality(r.db.titles[user_id]) - Cardinality(db.titles[user_id])
                   ELSE 0,
        logs |-> BagSize(r.db.log) - BagSize(db.log),
        results |-> BagSize(r.results),
        rod_logs |-> RecordsOf(r.db.log, "rod") - RecordsOf(db.log, "rod"),
        accessory_logs |-> RecordsOf(r.db.log, "accessory") - RecordsOf(db.log, "accessory")]

\* ------------------------------------------------------------------ ordinary draws

\* gacha / ten_gacha: one perform_draw call; an exception goes to the host.
Gacha(u, p, n) ==
    /\ gachaCount < MaxGacha
    /\ \E bag \in DrawBagsFor(p, n) : \E fault \in FaultsFor(p, bag) :
       \E r \in {PerformDraw(DB, u, p, n, bag, fault)} :
          /\ SetDB(r.db)
          /\ lastDraw' = DrawEffect("gacha", DB, u, p, n, bag, fault, r)
    /\ gachaCount' = gachaCount + 1
    /\ UNCHANGED << lock, lockUser, pc, loc, resp, ledger, faultCount, storeVars >>

\* ------------------------------------------------------------------ ten_thousand_gacha

\* The command's argument: absent, not a number, or a pool id.
Args ==
    {[kind |-> "missing", id |-> 0], [kind |-> "text", id |-> 0]}
        \cup {[kind |-> "num", id |-> p] : p \in PoolIdArgs}

RefundFaults == {"none", "first", "both"}

\* Whether the attempt-th user_repo.update of a refund raises.
RefundRaises(rf, attempt) == rf = "both" \/ (rf = "first" /\ attempt = 1)

InTrace(tr, e) == \E i \in DOMAIN tr : tr[i] = e

Rejected(kind, holder) ==
    [next |-> "done", loc |-> NoLocals,
     resp |-> [NoResp EXCEPT !.kind = kind, !.holder = holder]]

\* The reply to a request that finds the lock set: it names the recorded holder.
Busy(holder, u) ==
    IF holder = u THEN Rejected("busy_self", u)
    ELSE Rejected("busy_other",
                  IF holder # None /\ holder \in Registered THEN holder ELSE "unknown")

\* The argument and affordability checks, and the risk notice.
Validate(balances, u, arg) ==
    IF arg.kind = "missing" THEN Rejected("usage", None)
    ELSE IF arg.kind = "text" THEN Rejected("not_a_number", None)
    ELSE IF arg.id \notin DOMAIN Pools THEN Rejected("no_pool", None)
    ELSE IF u \notin Registered THEN Rejected("not_registered", None)
    ELSE IF ~CanAfford(balances[u], Pools[arg.id].cost_coins * TenThousand)
    THEN Rejected("no_coins", None)
    ELSE [next |-> "confirm",
          loc |-> [NoLocals EXCEPT !.user_id = u, !.pool_id = arg.id,
                                   !.total_cost = Pools[arg.id].cost_coins * TenThousand,
                                   !.user_coins = balances[u]],
          resp |-> [NoResp EXCEPT !.kind = "starting"]]

\* Mutant: the lock is not checked on entry.
EntryIgnoresLock(lockv, holder, balances, u, arg) == Validate(balances, u, arg)

\* The handler from its start to its first yield.
Entry(lockv, holder, balances, u, arg) ==
    IF lockv THEN Busy(holder, u) ELSE Validate(balances, u, arg)

\* Mutant: the early returns pass through the finally block that releases the slot.
SlotReleasedOnReturn(lockv, holder, next) ==
    IF next = "done" THEN [lock |-> FALSE, user |-> None]
    ELSE [lock |-> lockv, user |-> holder]

\* The admission slot after the handler's first segment: the busy check, the
\* validation returns and the risk notice come before the try block and write
\* neither the flag nor the holder.
SlotAfterEntry(lockv, holder, next) == [lock |-> lockv, user |-> holder]

Request(h, u, arg) ==
    /\ pc[h] = "idle"
    /\ LET e == Entry(lock, lockUser, coins, u, arg)
           slot == SlotAfterEntry(lock, lockUser, e.next)
       IN /\ pc' = [pc EXCEPT ![h] = e.next]
          /\ loc' = [loc EXCEPT ![h] = e.loc]
          /\ resp' = [e.resp EXCEPT !.handler = h]
          /\ ledger' = [ledger EXCEPT ![h].admitted = (e.next = "confirm")]
          /\ lock' = slot.lock
          /\ lockUser' = slot.user
    /\ UNCHANGED << dbVars, lastDraw, gachaCount, faultCount, storeVars >>

\* The except branch: the user is read again and the refund added.
ExceptRefund(db, l, cost, raises) ==
    LET amount == IF l.processed = 0 THEN l.total_cost
                  ELSE l.total_cost - l.processed * cost
        pays == l.processed = 0 \/ amount > 0
    IN IF pays /\ raises
       THEN [db |-> db, kind |-> "refund_failed", refunded |-> 0]
       ELSE [db |-> IF pays THEN [db EXCEPT !.coins[l.user_id] = @ + amount] ELSE db,
             kind |-> IF l.processed = 0 THEN "aborted_all" ELSE "aborted_part",
             refunded |-> amount]

\* A sub-batch that returned success: results kept, counter advanced.
BatchSucceeded(l, r) ==
    [db |-> r.db,
     loc |-> [l EXCEPT !.processed = @ + BatchSize, !.batch = @ + 1,
                       !.total_results = BagUnion(@, r.results)],
     pc |-> IF l.batch < NumBatches - 1 THEN "progress" ELSE "report",
     resp |-> [NoResp EXCEPT !.kind = IF l.batch < NumBatches - 1 THEN "progress"
                                      ELSE "complete",
                             !.completed = l.processed + BatchSize]]

\* Mutant: the failed sub-batch is not counted among the remaining ones.
BatchFailedOffByOne(l, r, cost) ==
    LET remaining_cost == (NumBatches - l.batch - 1) * BatchSize * cost
    IN [db |-> IF remaining_cost > 0
               THEN [r.db EXCEPT !.coins[l.user_id] = l.user_coins + remaining_cost]
               ELSE r.db,
        loc |-> [l EXCEPT !.failed_at_batch = l.batch + 1,
                          !.remaining_cost = remaining_cost,
                          !.user_coins = IF remaining_cost > 0 THEN @ + remaining_cost ELSE @],
        pc |-> "report",
        resp |-> [NoResp EXCEPT !.kind = "partial", !.completed = l.processed,
                                !.refunded = l.total_cost - l.processed * cost]]

\* Mutant: the loop goes on to the next sub-batch after a failure.
BatchFailedContinues(l, r, cost) ==
    [db |-> r.db,
     loc |-> [l EXCEPT !.failed_at_batch = l.batch + 1, !.batch = @ + 1],
     pc |-> IF l.batch < NumBatches - 1 THEN "progress" ELSE "report",
     resp |-> [NoResp EXCEPT !.kind = "partial", !.completed = l.processed]]

\* A sub-batch that returned failure: the rest is refunded on the user object
\* read before the first sub-batch, and the loop is left.
BatchFailed(l, r, cost) ==
    LET remaining_cost == (NumBatches - l.batch) * BatchSize * cost
    IN [db |-> IF remaining_cost > 0
               THEN [r.db EXCEPT !.coins[l.user_id] = l.user_coins + remaining_cost]
               ELSE r.db,
        loc |-> [l EXCEPT !.failed_at_batch = l.batch + 1,
                          !.remaining_cost = remaining_cost,
                          !.user_coins = IF remaining_cost > 0 THEN @ + remaining_cost ELSE @],
        pc |-> "report",
        resp |-> [NoResp EXCEPT !.kind = "partial", !.completed = l.processed,
                                !.refunded = l.total_cost - l.processed * cost]]

\* perform_draw raised, or the refund's update did: the except branch.
BatchRaised(l, r, cost, stale_raised, rf) ==
    LET ex == ExceptRefund(r.db, l, cost, RefundRaises(rf, IF stale_raised THEN 2 ELSE 1))
    IN [db |-> ex.db,
        loc |-> [l EXCEPT !.failed_at_batch = IF stale_raised THEN l.batch + 1 ELSE @,
                          !.remaining_cost = ex.refunded],
        pc |-> "except_report",
        resp |-> [NoResp EXCEPT !.kind = ex.kind, !.completed = l.processed,
                                !.refunded = ex.refunded]]

\* One pass of the loop body, to the next yield.
BatchStep(l, r, rf) ==
    LET cost == Pools[l.pool_id].cost_coins
        stale_raised == /\ r.status = "fail"
                        /\ (NumBatches - l.batch) * BatchSize * cost > 0
                        /\ RefundRaises(rf, 1)
    IN IF r.status = "success" THEN BatchSucceeded(l, r)
       ELSE IF r.status = "raise" \/ stale_raised
       THEN BatchRaised(l, r, cost, stale_raised, rf)
       ELSE BatchFailed(l, r, cost)

\* History of one sub-batch call and of the refund that followed it.
Booked(g, l, before, r, after) ==
    LET u == l.user_id
        paid == IF InTrace(r.trace, "debit")
                THEN Pools[l.pool_id].cost_coins * BatchSize ELSE 0
    IN [g EXCEPT !.calls = @ + 1,
                 !.succeeded = @ + (IF r.status = "success" THEN 1 ELSE 0),
                 !.delta = @ + (after.coins[u] - before.coins[u]),
                 !.debited = @ + paid,
                 !.won = @ + (r.db.coins[u] - before.coins[u] + paid),
                 !.credited = @ + (after.coins[u] - r.db.coins[u])]

RunBatch(h) ==
    \E bag \in DrawBagsFor(loc[h].pool_id, BatchSize) :
    \E fault \in FaultsFor(loc[h].pool_id, bag) :
    \E l \in {loc[h]} :
    \E r \in {PerformDraw(DB, l.user_id, l.pool_id, BatchSize, bag, fault)} :
    \E rf \in (IF r.status = "success" THEN {"none"} ELSE RefundFaults) :
    \E s \in {BatchStep(l, r, rf)} :
        LET outage == IF fault # "none" \/ rf # "none" THEN 1 ELSE 0
        IN /\ faultCount + outage <= MaxFaults
           /\ faultCount' = faultCount + outage
           /\ SetDB(s.db)
           /\ loc' = [loc EXCEPT ![h] = s.loc]
           /\ pc' = [pc EXCEPT ![h] = s.pc]
           /\ resp' = [s.resp EXCEPT !.handler = h]
           /\ ledger' = [ledger EXCEPT ![h] = Booked(@, l, DB, r, s.db)]
           /\ UNCHANGED << lastDraw, storeVars >>

\* Resumed after the risk notice: the lock is set, then the first sub-batch runs.
StartBatches(h) ==
    /\ pc[h] = "confirm"
    /\ lock' = TRUE
    /\ lockUser' = loc[h].user_id
    /\ RunBatch(h)
    /\ UNCHANGED gachaCount

\* Resumed after a progress message: the next sub-batch runs.
NextBatch(h) ==
    /\ pc[h] = "progress"
    /\ RunBatch(h)
    /\ UNCHANGED << lock, lockUser, gachaCount >>

\* Number of 5-star descriptors in total_results.
UltraRare(results) ==
    LET S == {d \in DOMAIN results : d.type # "coins" /\ d.rarity = 5}
    IN SumOver([d \in S |-> results[d]], S)

\* Resumed after the result message: the lock is released; a long 5-star list
\* is sent in a further message before the finally block runs.
ResumeReport(h) ==
    /\ pc[h] = "report"
    /\ lock' = FALSE
    /\ lockUser' = None
    /\ IF UltraRare(loc[h].total_results) > UltraRareShown
       THEN /\ pc' = [pc EXCEPT ![h] = "detail"]
            /\ resp' = [NoResp EXCEPT !.handler = h, !.kind = "detail"]
            /\ UNCHANGED << loc, ledger >>
       ELSE /\ pc' = [pc EXCEPT ![h] = "done"]
            /\ loc' = [loc EXCEPT ![h] = NoLocals]
            /\ ledger' = [ledger EXCEPT ![h] = NoLedger]
            /\ UNCHANGED resp
    /\ UNCHANGED << dbVars, lastDraw, gachaCount, faultCount, storeVars >>

\* Mutant: the handler ends without its finally block.
FinallyKeepsLock(h) ==
    /\ pc[h] \in {"detail", "except_report"}
    /\ pc' = [pc EXCEPT ![h] = "done"]
    /\ loc' = [loc EXCEPT ![h] = NoLocals]
    /\ ledger' = [ledger EXCEPT ![h] = NoLedger]
    /\ UNCHANGED << dbVars, lock, lockUser, resp, lastDraw, gachaCount, faultCount, storeVars >>

\* The finally block, reached after the detail message or after the except branch.
Finally(h) ==
    /\ pc[h] \in {"detail", "except_report"}
    /\ lock' = FALSE
    /\ lockUser' = None
    /\ pc' = [pc EXCEPT ![h] = "done"]
    /\ loc' = [loc EXCEPT ![h] = NoLocals]
    /\ ledger' = [ledger EXCEPT ![h] = NoLedger]
    /\ UNCHANGED << dbVars, resp, lastDraw, gachaCount, faultCount, storeVars >>

Next ==
    \/ \E h \in Handlers, u \in UserIds, arg \in Args : Request(h, u, arg)
    \/ \E h \in Handlers : StartBatches(h)
    \/ \E h \in Handlers : NextBatch(h)
    \/ \E h \in Handlers : ResumeReport(h)
    \/ \E h \in Handlers : Finally(h)

Spec == Init /\ [][Next]_vars

\* Ordinary draw commands alone.
NextDraw == \E u \in UserIds, p \in PoolIdArgs, n \in DrawCommands : Gacha(u, p, n)

DrawSpec == Init /\ [][NextDraw]_vars

\* The host resumes every suspended handler: each handler's steps are weakly fair.
HandlerStep(h) == StartBatches(h) \/ NextBatch(h) \/ ResumeReport(h) \/ Finally(h)

FairSpec == Spec /\ \A h \in Handlers : WF_vars(HandlerStep(h))

\* ------------------------------------------------------------------ stackable calls

\* Number of calls a run of the stackable repository makes.
MaxStackOps == 3

\* The update lists batch_update_bait_quantities is called with: the items of a
\* dict, so at most one entry per bait id.
BaitUpdates ==
    LET Lists == UNION {[1..k -> StoreBaitIds \X Deltas] :
                           k \in 0..Cardinality(StoreBaitIds)}
    IN {l \in Lists : \A i, j \in DOMAIN l : i # j => l[i][1] # l[j][1]}

\* The add/remove pair being followed: opened by an add of delta > 0 to a pair with
\* no row, closed if the very next call removes the same delta from the same pair.
NextTrip(op, u, id, delta, rows) ==
    IF /\ trip.op = op /\ ~trip.closed /\ trip.user = u /\ trip.id = id
       /\ delta = -trip.delta
    THEN [trip EXCEPT !.closed = TRUE]
    ELSE IF op # "none" /\ delta > 0 /\ id \notin DOMAIN rows
    THEN [op |-> op, user |-> u, id |-> id, delta |-> delta, closed |-> FALSE,
          bait |-> baitInv, fish |-> fishInv]
    ELSE NoTrip

StackCall(record, nextTrip) ==
    /\ storeOps < MaxStackOps
    /\ storeOps' = storeOps + 1
    /\ lastStore' = record
    /\ trip' = nextTrip
    /\ UNCHANGED << gachaVars, userRods, userAccessories, rodRows, accRows, pick, agg,
                    marketVars >>

CallUpdateBaitQuantity(u, bait_id, delta) ==
    /\ baitInv' = [baitInv EXCEPT ![u] = UpdateBaitQuantity(@, bait_id, delta)]
    /\ UNCHANGED fishInv
    /\ StackCall([NoStore EXCEPT !.op = "update_bait_quantity", !.user = u],
                 NextTrip("update_bait_quantity", u, bait_id, delta, baitInv[u]))

CallUpdateFishQuantity(u, fish_id, delta) ==
    /\ fishInv' = [fishInv EXCEPT ![u] = UpdateFishQuantity(@, fish_id, delta)]
    /\ UNCHANGED baitInv
    /\ StackCall([NoStore EXCEPT !.op = "update_fish_quantity", !.user = u],
                 NextTrip("update_fish_quantity", u, fish_id, delta, fishInv[u]))

CallAddFishToInventory(u, fish_id, quantity) ==
    /\ fishInv' = [fishInv EXCEPT ![u] = AddFishToInventory(@, fish_id, quantity)]
    /\ UNCHANGED baitInv
    /\ StackCall([NoStore EXCEPT !.op = "add_fish_to_inventory", !.user = u],
                 NextTrip("none", u, fish_id, quantity, fishInv[u]))

CallSellFishKeepOne(u, fail_at) ==
    \E r \in {SellFishKeepOne(fishInv[u], fail_at)} :
        /\ fishInv' = [fishInv EXCEPT ![u] = r.rows]
        /\ UNCHANGED baitInv
        /\ StackCall([NoStore EXCEPT !.op = "sell_fish_keep_one", !.user = u,
                                     !.raised = r.raised, !.fail_at = fail_at,
                                     !.returned = r.sold_value],
                     NextTrip("none", u, 0, 0, fishInv[u]))

\* Entries of the list that change the rows they meet (the list has one entry per id).
Writes(rows, bait_updates, upto) ==
    {i \in 1..upto : BatchUpdateOne(rows, bait_updates[i][1], bait_updates[i][2]) # rows}

\* Entries of the list whose update shows in the rows after the call.
Applied(before, after, bait_updates) ==
    {i \in DOMAIN bait_updates :
        LET b == bait_updates[i][1]
            d == bait_updates[i][2]
        IN IF b \in DOMAIN before
           THEN b \in DOMAIN after
                /\ after[b] = (IF before[b] + d < 0 THEN 0 ELSE before[b] + d)
           ELSE IF d > 0 THEN b \in DOMAIN after /\ after[b] = d
           ELSE b \notin DOMAIN after}

\* The places a call can fail: a statement of an entry with a delta, or the COMMIT.
FailPoints(bait_updates) ==
    {0} \cup {i \in DOMAIN bait_updates : bait_updates[i][2] # 0}
        \cup (IF bait_updates = << >> THEN {} ELSE {Len(bait_updates) + 1})

CallBatchUpdateBaitQuantities(u, bait_updates, fail_at) ==
    \E r \in {BatchUpdateTxn(baitInv[u], bait_updates, fail_at)} :
        /\ baitInv' = [baitInv EXCEPT ![u] = r.rows]
        /\ UNCHANGED fishInv
        /\ StackCall([NoStore EXCEPT
                         !.op = "batch_update_bait_quantities", !.user = u,
                         !.n = Len(bait_updates), !.fail_at = fail_at,
                         !.raised = r.raised,
                         !.written = Cardinality(Writes(baitInv[u], bait_updates,
                                        IF fail_at = 0 THEN Len(bait_updates)
                                        ELSE fail_at - 1)),
                         !.applied = Cardinality(Applied(baitInv[u], r.rows, bait_updates)),
                         !.as_sequential =
                             (r.rows = SequentialUpdates(baitInv[u], bait_updates, 1))],
                     NextTrip("none", u, 0, 0, baitInv[u]))

StackNext ==
    \/ \E u \in Registered, b \in StoreBaitIds, d \in Deltas : CallUpdateBaitQuantity(u, b, d)
    \/ \E u \in Registered, f \in FishIds, d \in Deltas : CallUpdateFishQuantity(u, f, d)
    \/ \E u \in Registered, f \in FishIds, q \in Quantities : CallAddFishToInventory(u, f, q)
    \/ \E u \in Registered : \E k \in SellFailPoints(fishInv[u]) : CallSellFishKeepOne(u, k)
    \/ \E u \in Registered, l \in BaitUpdates :
          \E k \in FailPoints(l) : CallBatchUpdateBaitQuantities(u, l, k)

StackSpec == Init /\ [][StackNext]_vars

\* ------------------------------------------------------------------ equipment calls

\* Number of calls a run of the equipment repository makes.
MaxEquipOps == 3

\* Longest list batch_add_*_instances is called with here.
MaxBatchRows == 2

\* The lists of template ids a batch is called with, and how each fallback insert goes.
EquipData(ids) == UNION {[1..k -> ids] : k \in 0..MaxBatchRows}
EachOk(data) == [DOMAIN data -> BOOLEAN]

\* Instance ids a caller passes: 0 for none, the ids in use, and one not in use.
InstanceIdArgs(rows) == 0..NextId(rows)

EquipCall(record) ==
    /\ storeOps < MaxEquipOps
    /\ storeOps' = storeOps + 1
    /\ lastStore' = [record EXCEPT !.max_equipped = Max(@, MaxEquipped(rodRows', accRows'))]
    /\ UNCHANGED << gachaVars, userRods, userAccessories, baitInv, fishInv, trip, pick,
                    agg, marketVars >>

CallAddRodInstance(u, rod_id) ==
    /\ rodRows' = AddInstance(rodRows, u, rod_id)
    /\ UNCHANGED accRows
    /\ EquipCall([NoStore EXCEPT !.op = "add_rod_instance", !.user = u, !.added = 1])

CallAddAccessoryInstance(u, accessory_id) ==
    /\ accRows' = AddInstance(accRows, u, accessory_id)
    /\ UNCHANGED rodRows
    /\ EquipCall([NoStore EXCEPT !.op = "add_accessory_instance", !.user = u, !.added = 1])

CallDeleteRodInstance(rod_instance_id) ==
    /\ rodRows' = DeleteInstance(rodRows, rod_instance_id)
    /\ UNCHANGED accRows
    /\ EquipCall([NoStore EXCEPT !.op = "delete_rod_instance"])

CallDeleteAccessoryInstance(accessory_instance_id) ==
    /\ accRows' = DeleteInstance(accRows, accessory_instance_id)
    /\ UNCHANGED rodRows
    /\ EquipCall([NoStore EXCEPT !.op = "delete_accessory_instance"])

\* What a batch_add_*_instances call did, measured on the rows before and after it.
BatchRecord(op, u, data, fail, before, r) ==
    [NoStore EXCEPT !.op = op, !.user = u, !.n = Len(data),
                    !.raised = FALSE, !.fell_back = r.fell_back,
                    !.bulk_left = r.bulk_left,
                    !.attempts = Len(r.tried),
                    !.each_once = (~r.fell_back \/ r.tried = [i \in DOMAIN data |-> i]),
                    !.returned = r.returned,
                    !.added = Cardinality(r.rows) - Cardinality(before),
                    !.signal = r.signal]

CallBatchAddRodInstances(u, rod_data_list, fail, each_ok) ==
    \E r \in {BatchAddInstanceRows(rodRows, u, rod_data_list, fail, each_ok)} :
        /\ rodRows' = r.rows
        /\ UNCHANGED accRows
        /\ EquipCall(BatchRecord("batch_add_rod_instances", u, rod_data_list, fail,
                                 rodRows, r))

CallBatchAddAccessoryInstances(u, accessory_ids, fail, each_ok) ==
    \E r \in {BatchAddInstanceRows(accRows, u, accessory_ids, fail, each_ok)} :
        /\ accRows' = r.rows
        /\ UNCHANGED rodRows
        /\ EquipCall(BatchRecord("batch_add_accessory_instances", u, accessory_ids, fail,
                                 accRows, r))

\* The instance a user has equipped in a table (0: none).
EquippedId(rows, u) ==
    IF \E r \in rows : r.user_id = u /\ r.is_equipped
    THEN (CHOOSE r \in rows : r.user_id = u /\ r.is_equipped).id
    ELSE 0

\* Which of the two optional instance ids a set_equipment_status call was given.
NamedCategory(rod_instance_id, accessory_instance_id) ==
    IF rod_instance_id # 0 /\ accessory_instance_id # 0 THEN "both"
    ELSE IF rod_instance_id # 0 THEN "rod"
    ELSE IF accessory_instance_id # 0 THEN "accessory"
    ELSE "neither"

\* Whether a call names an instance, and every instance id it names is the id of no
\* row of the user (0 is None).
NamesOnlyStrays(rods, accs, u, rod_instance_id, accessory_instance_id) ==
    /\ rod_instance_id # 0 \/ accessory_instance_id # 0
    /\ rod_instance_id # 0 => OwnedInstance(rods, u, rod_instance_id) = {}
    /\ accessory_instance_id # 0 => OwnedInstance(accs, u, accessory_instance_id) = {}

CallSetEquipmentStatus(u, rod_instance_id, accessory_instance_id, fail_at) ==
    \E r \in {SetEquipmentStatus(rodRows, accRows, u, rod_instance_id,
                                 accessory_instance_id, fail_at)} :
        /\ rodRows' = r.rods
        /\ accRows' = r.accs
        /\ EquipCall([NoStore EXCEPT
                         !.op = "set_equipment_status", !.user = u,
                         !.raised = r.raised, !.fail_at = fail_at,
                         !.max_equipped = r.seen,
                         !.named = NamedCategory(rod_instance_id, accessory_instance_id),
                         !.stray = NamesOnlyStrays(rodRows, accRows, u, rod_instance_id,
                                                   accessory_instance_id),
                         !.replaced = /\ EquippedId(rodRows, u) # 0
                                      /\ EquippedId(r.rods, u) # 0
                                      /\ EquippedId(r.rods, u) # EquippedId(rodRows, u)])

EquipNext ==
    \/ \E u \in Registered, t \in RodIds : CallAddRodInstance(u, t)
    \/ \E u \in Registered, t \in AccessoryIds : CallAddAccessoryInstance(u, t)
    \/ \E i \in InstanceIdArgs(rodRows) \ {0} : CallDeleteRodInstance(i)
    \/ \E i \in InstanceIdArgs(accRows) \ {0} : CallDeleteAccessoryInstance(i)
    \/ \E u \in Registered, l \in EquipData(RodIds), f \in BulkFaults :
          \E m \in (IF f = "none" THEN {[i \in DOMAIN l |-> TRUE]} ELSE EachOk(l)) :
             CallBatchAddRodInstances(u, l, f, m)
    \/ \E u \in Registered, l \in EquipData(AccessoryIds), f \in BulkFaults :
          \E m \in (IF f = "none" THEN {[i \in DOMAIN l |-> TRUE]} ELSE EachOk(l)) :
             CallBatchAddAccessoryInstances(u, l, f, m)
    \/ \E u \in Registered, i \in InstanceIdArgs(rodRows), j \in InstanceIdArgs(accRows),
          k \in 0..EquipSteps : CallSetEquipmentStatus(u, i, j, k)

EquipSpec == Init /\ [][EquipNext]_vars

\* ------------------------------------------------------------------ weighted draw

\* Weights of a pool entry and the longest pool drawn from here. Weights and random
\* values are counted in halves, so that a random value strictly between two
\* accumulated sums (an odd number) occurs as well as one on a boundary.
Weights == {0, 2, 4}
MaxPoolLen == 3

\* The item lists of the pools drawn from.
WeightedPools ==
    UNION {[1..k -> {PoolItem(1, "coins", 0, 1, w) : w \in Weights}] : k \in 0..MaxPoolLen}

\* The values random.uniform(0, total_weight) returns.
RandVals(items) == 0..TotalWeight(items)

\* One call of _perform_single_weighted_draw.
CallSingleWeightedDraw(items, rand_val) ==
    /\ pick' = [called |-> TRUE, items |-> items, rand_val |-> rand_val,
                item |-> SingleWeightedDraw(items, rand_val)]
    /\ UNCHANGED << gachaVars, userRods, userAccessories, baitInv, fishInv, rodRows,
                    accRows, lastStore, trip, storeOps, agg, marketVars >>

WeightNext == \E items \in WeightedPools : \E r \in RandVals(items) :
                 CallSingleWeightedDraw(items, r)

WeightSpec == Init /\ [][WeightNext]_vars

\* ------------------------------------------------------------------ aggregation calls

\* Longest list of draw outcomes aggregated here.
MaxDrawList == 4

\* The pool entries a draw outcome can be.
Outcomes ==
    {PoolItem(1, "rod", 1, 1, 1), PoolItem(1, "accessory", 1, 1, 1),
     PoolItem(1, "bait", 1, 1, 1), PoolItem(1, "bait", 1, 2, 1), PoolItem(1, "bait", 2, 1, 1),
     PoolItem(1, "coins", 0, 10, 1), PoolItem(1, "coins", 0, 5, 1),
     PoolItem(1, "titles", 1, 1, 1), PoolItem(1, "titles", 2, 1, 1)}

DrawResults == UNION {[1..k -> Outcomes] : k \in 0..MaxDrawList}

\* The aggregation phase of one _grant_rewards_batch call.
CallAggregate(draw_results) ==
    /\ ~agg.called
    /\ agg' = [called |-> TRUE, draw_results |-> draw_results,
               rewards |-> Aggregate(draw_results)]
    /\ UNCHANGED << gachaVars, userRods, userAccessories, baitInv, fishInv, rodRows,
                    accRows, lastStore, trip, storeOps, pick, marketVars >>

AggNext == ~agg.called /\ \E draw_results \in DrawResults : CallAggregate(draw_results)

AggSpec == Init /\ [][AggNext]_vars

\* ------------------------------------------------------------------ market calls

\* Number of MarketService calls a run makes.
MaxMarketOps == 2

\* Arguments of the market commands: an item type that cannot be listed, a price
\* that is not positive, one taxed 1 coin and one taxed more than "u2" owns.
ItemTypes == {"rod", "accessory", "bait"}
Prices == {0, 50, 300}

\* The rows the market calls read and write.
MarketDB == [coins |-> coins, rods |-> rodRows, accs |-> accRows, listings |-> listings,
             tax |-> taxRecords]

MarketCall(record, r) ==
    /\ marketOps < MaxMarketOps
    /\ marketOps' = marketOps + 1
    /\ lastMarket' = [record EXCEPT !.success = r.success, !.message = r.message]
    /\ coins' = r.db.coins
    /\ rodRows' = r.db.rods
    /\ accRows' = r.db.accs
    /\ listings' = r.db.listings
    /\ taxRecords' = r.db.tax
    /\ UNCHANGED << userRods, userAccessories, baitInv, userTitles, gachaRecords, lock,
                    lockUser, pc, loc, resp, ledger, lastDraw, gachaCount, faultCount,
                    fishInv, lastStore, trip, storeOps, pick, agg, buys >>

CallPutItemOnSale(user_id, item_type, item_instance_id, price) ==
    \E r \in {PutItemOnSale(MarketDB, user_id, item_type, item_instance_id, price)} :
        MarketCall([NoMarket EXCEPT !.op = "put_item_on_sale", !.user_id = user_id,
                                    !.item_type = item_type, !.id = item_instance_id,
                                    !.price = price], r)

CallBuyMarketItem(buyer_id, market_id) ==
    \E r \in {BuyMarketItem(MarketDB, buyer_id, market_id)} :
        MarketCall([NoMarket EXCEPT !.op = "buy_market_item", !.user_id = buyer_id,
                                    !.id = market_id], r)

\* Instance ids a market command names: the ids in use in either table and one more.
MarketIdArgs == 1..Max(NextId(rodRows), NextId(accRows))

MarketNext ==
    \/ \E u \in Registered, t \in RodIds : CallAddRodInstance(u, t)
    \/ \E u \in Registered, t \in AccessoryIds : CallAddAccessoryInstance(u, t)
    \/ \E u \in Registered, i \in InstanceIdArgs(rodRows), j \in InstanceIdArgs(accRows) :
          CallSetEquipmentStatus(u, i, j, 0)
    \/ \E u \in UserIds, t \in ItemTypes, i \in MarketIdArgs, p \in Prices :
          CallPutItemOnSale(u, t, i, p)
    \/ \E u \in UserIds, k \in 1..NextMarketId(listings) : CallBuyMarketItem(u, k)

MarketSpec == Init /\ [][MarketNext]_vars

\* ------------------------------------------------------------------ market calls that can fail

\* The price the items are listed at.
ListPrice == 50

CallPutItemOnSaleAt(user_id, item_type, item_instance_id, price, fail_at) ==
    \E r \in {PutItemOnSaleAt(MarketDB, user_id, item_type, item_instance_id, price,
                              fail_at)} :
        MarketCall([NoMarket EXCEPT !.op = "put_item_on_sale", !.user_id = user_id,
                                    !.item_type = item_type, !.id = item_instance_id,
                                    !.price = price, !.fail_at = fail_at], r)

CallBuyMarketItemAt(buyer_id, market_id, fail_at) ==
    \E r \in {BuyMarketItemAt(MarketDB, buyer_id, market_id, fail_at)} :
        MarketCall([NoMarket EXCEPT !.op = "buy_market_item", !.user_id = buyer_id,
                                    !.id = market_id, !.fail_at = fail_at], r)

CallRemoveItemFromMarket(user_id, market_id, fail_at) ==
    \E r \in {RemoveItemFromMarketAt(MarketDB, user_id, market_id, fail_at)} :
        MarketCall([NoMarket EXCEPT !.op = "remove_item_from_market",
                                    !.user_id = user_id, !.id = market_id,
                                    !.fail_at = fail_at], r)

\* The market commands one after the other, on the instances and listings there
\* are and on one id beyond them, each with every store call that can raise.
TradeNext ==
    \/ \E u \in Registered, t \in RodIds : CallAddRodInstance(u, t)
    \/ \E u \in Registered, t \in AccessoryIds : CallAddAccessoryInstance(u, t)
    \/ \E u \in Registered, t \in {"rod", "accessory"}, i \in MarketIdArgs,
          k \in 0..PutSteps : CallPutItemOnSaleAt(u, t, i, ListPrice, k)
    \/ \E u \in Registered, i \in 1..NextMarketId(listings), k \in 0..BuySteps :
          CallBuyMarketItemAt(u, i, k)
    \/ \E u \in Registered, i \in 1..NextMarketId(listings), k \in 0..RemoveSteps :
          CallRemoveItemFromMarket(u, i, k)

TradeSpec == Init /\ [][TradeNext]_vars

\* ------------------------------------------------------------------ all coin writers

\* Number of ordinary draws and of instance inserts next to the 10000-draw operation
\* and the market calls.
MaxSideDraws == 1
MaxSideInserts == 1

\* The commands that write users.coins, interleaved at the handlers' yields: a
\* 10000-draw operation of "u1" (the only user who can pay one), the ordinary draws,
\* and the market commands on the rods and listings there are.
CoinNext ==
    \/ \E p \in {1, 3} : Request("h1", "u1", [kind |-> "num", id |-> p])
    \/ StartBatches("h1")
    \/ NextBatch("h1")
    \/ ResumeReport("h1")
    \/ Finally("h1")
    \/ gachaCount < MaxSideDraws
       /\ \E u \in Registered, n \in DrawCommands : Gacha(u, 1, n)
    \/ storeOps < MaxSideInserts
       /\ \E u \in Registered, t \in RodIds : CallAddRodInstance(u, t)
    \/ \E u \in Registered, r \in rodRows, p \in Prices \ {0} :
          CallPutItemOnSale(u, "rod", r.id, p)
    \/ \E u \in Registered, l \in listings : CallBuyMarketItem(u, l.market_id)

CoinSpec == Init /\ [][CoinNext]_vars

\* ------------------------------------------------------------------ concurrent purchases

\* Three registered users with the same balance: "u1" sells, "u2" and "u3" buy.
RaceBalance == 100

RaceInit ==
    /\ coins = [u \in UserIds |-> RaceBalance]
    /\ userRods = [u \in Registered |-> [t \in RodIds |-> 0]]
    /\ userAccessories = [u \in Registered |-> [t \in AccessoryIds |-> 0]]
    /\ baitInv = [u \in Registered |-> << >>]
    /\ userTitles = [u \in Registered |-> {}]
    /\ gachaRecords = EmptyBag
    /\ lock = FALSE
    /\ lockUser = None
    /\ pc = [h \in Handlers |-> "idle"]
    /\ loc = [h \in Handlers |-> NoLocals]
    /\ resp = NoResp
    /\ ledger = [h \in Handlers |-> NoLedger]
    /\ lastDraw = NoDraw
    /\ gachaCount = 0
    /\ faultCount = 0
    /\ fishInv = [u \in Registered |-> << >>]
    /\ rodRows = {}
    /\ accRows = {}
    /\ lastStore = NoStore
    /\ trip = NoTrip
    /\ storeOps = 0
    /\ pick = NoPick
    /\ agg = NoAggregate
    /\ listings = {}
    /\ taxRecords = EmptyBag
    /\ lastMarket = NoMarket
    /\ marketOps = 0
    /\ buys = [b \in Buyers |-> NoBuy]

\* One store call of a buy_market_item call, with the code up to the next one.
BuyStep(b, next) ==
    /\ buys' = [buys EXCEPT ![b] = next]
    /\ UNCHANGED << userTitles, gachaRecords, lock, lockUser, pc, loc, resp, ledger,
                    lastDraw, gachaCount, faultCount, userRods, userAccessories, baitInv,
                    fishInv, lastStore, trip, storeOps, pick, agg, taxRecords,
                    lastMarket, marketOps >>

\* buyer = user_repo.get_by_id(buyer_id)
BuyGetBuyer(b, market_id) ==
    /\ buys[b].pc = "idle"
    /\ BuyStep(b, IF b \in DOMAIN coins
                  THEN [buys[b] EXCEPT !.pc = "get_listing", !.market_id = market_id,
                                       !.buyer_coins = coins[b]]
                  ELSE [buys[b] EXCEPT !.pc = "done", !.market_id = market_id])
    /\ UNCHANGED << coins, rodRows, accRows, listings >>

\* listing = market_repo.get_listing_by_id(market_id), and the own-listing check
BuyGetListing(b) ==
    /\ buys[b].pc = "get_listing"
    /\ LET found == {l \in listings : l.market_id = buys[b].market_id}
       IN BuyStep(b, IF found = {} \/ \E l \in found : l.user_id = b
                     THEN [buys[b] EXCEPT !.pc = "done"]
                     ELSE [buys[b] EXCEPT !.pc = "get_seller",
                                          !.listing = CHOOSE l \in found : TRUE])
    /\ UNCHANGED << coins, rodRows, accRows, listings >>

\* seller = user_repo.get_by_id(listing.user_id), and the can_afford check
BuyGetSeller(b) ==
    /\ buys[b].pc = "get_seller"
    /\ LET seller_id == buys[b].listing.user_id
       IN BuyStep(b, IF seller_id \notin DOMAIN coins
                        \/ ~CanAfford(buys[b].buyer_coins, buys[b].listing.price)
                     THEN [buys[b] EXCEPT !.pc = "done"]
                     ELSE [buys[b] EXCEPT !.pc = "update_buyer",
                                          !.seller_coins = coins[seller_id]])
    /\ UNCHANGED << coins, rodRows, accRows, listings >>

\* buyer.coins -= listing.price; user_repo.update(buyer)
BuyUpdateBuyer(b) ==
    /\ buys[b].pc = "update_buyer"
    /\ coins' = [coins EXCEPT ![b] = buys[b].buyer_coins - buys[b].listing.price]
    /\ BuyStep(b, [buys[b] EXCEPT !.pc = "update_seller", !.charged = TRUE])
    /\ UNCHANGED << rodRows, accRows, listings >>

\* seller.coins += listing.price; user_repo.update(seller)
BuyUpdateSeller(b) ==
    /\ buys[b].pc = "update_seller"
    /\ coins' = [coins EXCEPT ![buys[b].listing.user_id] =
                                 buys[b].seller_coins + buys[b].listing.price]
    /\ BuyStep(b, [buys[b] EXCEPT !.pc = "add_instance"])
    /\ UNCHANGED << rodRows, accRows, listings >>

\* inventory_repo.add_rod_instance / add_accessory_instance for the buyer
BuyAddInstance(b) ==
    /\ buys[b].pc = "add_instance"
    /\ LET listing == buys[b].listing
       IN /\ rodRows' = IF listing.item_type = "rod"
                        THEN AddInstance(rodRows, b, listing.item_id) ELSE rodRows
          /\ accRows' = IF listing.item_type = "accessory"
                        THEN AddInstance(accRows, b, listing.item_id) ELSE accRows
          /\ BuyStep(b, [buys[b] EXCEPT
                            !.pc = "remove_listing",
                            !.granted = IF listing.item_type \in {"rod", "accessory"}
                                        THEN 1 ELSE 0])
    /\ UNCHANGED << coins, listings >>

\* market_repo.remove_listing(market_id), and the success return
BuyRemoveListing(b) ==
    /\ buys[b].pc = "remove_listing"
    /\ listings' = {l \in listings : l.market_id # buys[b].market_id}
    /\ BuyStep(b, [buys[b] EXCEPT !.pc = "done", !.success = TRUE])
    /\ UNCHANGED << coins, rodRows, accRows >>

\* "u1" gets a rod and lists it; "u2" and "u3" each send one purchase command,
\* the two calls interleaved store call by store call.
RaceNext ==
    \/ storeOps < MaxSideInserts /\ \E t \in RodIds : CallAddRodInstance("u1", t)
    \/ \E r \in rodRows : CallPutItemOnSale("u1", "rod", r.id, ListPrice)
    \/ \E b \in Buyers, k \in 1..NextMarketId(listings) : BuyGetBuyer(b, k)
    \/ \E b \in Buyers : BuyGetListing(b)
    \/ \E b \in Buyers : BuyGetSeller(b)
    \/ \E b \in Buyers : BuyUpdateBuyer(b)
    \/ \E b \in Buyers : BuyUpdateSeller(b)
    \/ \E b \in Buyers : BuyAddInstance(b)
    \/ \E b \in Buyers : BuyRemoveListing(b)

RaceSpec == RaceInit /\ [][RaceNext]_vars

\* ------------------------------------------------------------------ claims

\* Positions of a handler after it set the lock and before it finished.
Holding == {"progress", "report", "detail", "except_report"}

\* C1: at most one handler is inside the sub-batch processing section (suspended
\* between two sub-batches) at any time.
C1_MutualExclusion == Cardinality({h \in Handlers : pc[h] = "progress"}) <= 1

\* C2: a request that arrives while the lock is set ends at once with a busy
\* reply naming the recorded holder; it makes no perform_draw call and changes no
\* balance, no inventory row and no audit record.
C2_BusyRejected ==
    [][\A h \in Handlers :
          (pc[h] = "idle" /\ pc'[h] # "idle" /\ lock)
              => /\ pc'[h] = "done"
                 /\ resp'.handler = h
                 /\ resp'.kind \in {"busy_self", "busy_other"}
                 /\ resp'.holder = lockUser
                 /\ ledger'[h].calls = 0
                 /\ dbVars' = dbVars
                 /\ lock' = lock /\ lockUser' = lockUser]_vars

C2_Witness ==
    /\ lock
    /\ resp.kind = "busy_other"
    /\ resp.holder = lockUser
    /\ pc[resp.handler] = "done"

\* C3: a handler that set the lock finishes, and when it finishes the lock is
\* clear and no holder is recorded, whichever way it ended; the lock is never set
\* while no handler is between setting it and finishing.
C3_SlotReleased ==
    /\ [][\A h \in Handlers :
             (pc[h] \in Holding /\ pc'[h] = "done")
                 => (lock' = FALSE /\ lockUser' = None)]_vars
    /\ []((\A h \in Handlers : pc[h] \notin Holding) => (lock = FALSE /\ lockUser = None))
    /\ \A h \in Handlers : (pc[h] \in Holding) ~> (pc[h] = "done")

C3_Witness ==
    /\ resp.kind = "refund_failed"
    /\ pc[resp.handler] = "done"
    /\ lock = FALSE
    /\ lockUser = None

\* C4: when an admitted operation has ended, its net effect on the balance is
\* -(cost x completed draws) + coins won, and what it credited as refund is at most
\* what it debited for draws that did not complete.
C4_NoCurrencyCreated ==
    \A h \in Handlers :
        (pc[h] \in {"report", "except_report"})
            => /\ ledger[h].delta =
                    ledger[h].won - Pools[loc[h].pool_id].cost_coins * loc[h].processed
               /\ ledger[h].credited <=
                    ledger[h].debited - Pools[loc[h].pool_id].cost_coins * loc[h].processed

\* C5 (as stated): when sub-batch 3 of 5 returns failure, 4000 draws' worth is
\* refunded and 6000 draws are completed.
C5_Original ==
    \A h \in Handlers :
        (pc[h] = "report" /\ loc[h].failed_at_batch = 3)
            => /\ loc[h].remaining_cost = 4000 * Pools[loc[h].pool_id].cost_coins
               /\ loc[h].processed = 6000

\* C5 (amended): when the third sub-batch (reported as batch 3) returns failure,
\* the refund added is 6000 draws' worth and 4000 draws are completed; the figures
\* 4000 refunded / 6000 completed are those of a failure of the fourth sub-batch.
C5_ThirdBatchFails ==
    \A h \in Handlers :
        (pc[h] = "report")
            => /\ (loc[h].failed_at_batch = 3)
                    => /\ loc[h].remaining_cost = 6000 * Pools[loc[h].pool_id].cost_coins
                       /\ loc[h].processed = 4000
                       /\ resp.handler = h => resp.completed = 4000
               /\ (loc[h].failed_at_batch = 4)
                    => /\ loc[h].remaining_cost = 4000 * Pools[loc[h].pool_id].cost_coins
                       /\ loc[h].processed = 6000

C5_Witness ==
    \E h \in Handlers :
        /\ pc[h] = "report"
        /\ loc[h].failed_at_batch = 3
        /\ ledger[h].succeeded = 2

\* C6: the processed-draw counter is 2000 x the number of sub-batches that returned
\* success, a multiple of 2000 from 0 to 10000; an operation makes one call per
\* sub-batch in order, and after a call that did not return success it is never
\* again in a position to make another.
C6_SequentialBatches ==
    \A h \in Handlers :
        /\ loc[h].processed = BatchSize * ledger[h].succeeded
        /\ loc[h].processed \in {BatchSize * k : k \in 0..NumBatches}
        /\ ledger[h].calls <= NumBatches
        /\ ledger[h].calls \in {ledger[h].succeeded, ledger[h].succeeded + 1}
        /\ (pc[h] \in {"confirm", "progress"})
              => (ledger[h].calls = ledger[h].succeeded /\ loc[h].batch = ledger[h].calls)

C6_Witness ==
    \E h \in Handlers :
        /\ pc[h] \in {"report", "except_report"}
        /\ ledger[h].succeeded >= 1
        /\ ledger[h].calls = ledger[h].succeeded + 1

\* C7: a perform_draw that returns failure for an unknown user, an unknown or
\* empty pool, or a balance below cost x num_draws leaves every row unchanged.
C7_FailureChangesNothing ==
    (lastDraw.status = "fail" /\ lastDraw.message \in {"no_user", "no_pool", "no_coins"})
        => /\ lastDraw.unchanged
           /\ lastDraw.after = lastDraw.before
           /\ lastDraw.logs = 0
           /\ lastDraw.trace = << >>

C7_Witness ==
    /\ lastDraw.status = "fail"
    /\ lastDraw.message = "no_coins"
    /\ lastDraw.user_id = "u2"
    /\ lastDraw.num_draws = 10

GrantEvents == {"rods", "accessories", "baits", "coins", "titles", "log"}

CoinsDrawn(pool_id, bag) ==
    LET items == Pools[pool_id].items
        S == {i \in DOMAIN items : items[i].item_type = "coins"}
    IN SumOver([i \in S |-> bag[i] * items[i].quantity], S)

\* C9: after a successful perform_draw the balance is the balance before, minus
\* cost x num_draws, plus the coins drawn.
C9_BalanceAfterDraw ==
    (lastDraw.status = "success")
        => lastDraw.after = lastDraw.before
                            - Pools[lastDraw.pool_id].cost_coins * lastDraw.num_draws
                            + CoinsDrawn(lastDraw.pool_id, lastDraw.bag)

C9_Witness ==
    /\ lastDraw.status = "success"
    /\ lastDraw.num_draws = 10
    /\ CoinsDrawn(lastDraw.pool_id, lastDraw.bag) > 0
    /\ lastDraw.rods > 0

\* C10: a successful perform_draw of one draw has exactly one reward effect and
\* writes exactly one audit record.
C10_OneEffectOneRecord ==
    (lastDraw.status = "success" /\ lastDraw.num_draws = 1)
        => /\ lastDraw.logs = 1
           /\ lastDraw.rods + lastDraw.accs + lastDraw.titles
                + (IF lastDraw.bait > 0 THEN 1 ELSE 0)
                + (IF lastDraw.after
                        > lastDraw.before - Pools[lastDraw.pool_id].cost_coins
                   THEN 1 ELSE 0) = 1

\* Number of drawn units of one kind, and the summed quantity they carry.
UnitsDrawn(pool_id, bag, kind) ==
    LET items == Pools[pool_id].items
        S == {i \in DOMAIN items : items[i].item_type = kind}
    IN SumOver([i \in S |-> bag[i]], S)

QuantityDrawn(pool_id, bag, kind) ==
    LET items == Pools[pool_id].items
        S == {i \in DOMAIN items : items[i].item_type = kind}
    IN SumOver([i \in S |-> bag[i] * items[i].quantity], S)

\* Distinct template ids of one kind that were drawn.
IdsDrawn(pool_id, bag, kind) ==
    LET items == Pools[pool_id].items
    IN {items[i].item_id : i \in {j \in DOMAIN items :
                                     items[j].item_type = kind /\ bag[j] > 0}}

\* C11: a successful perform_draw writes one audit record per drawn unit.
C11_AuditPerUnit ==
    (lastDraw.status = "success") => lastDraw.logs = lastDraw.num_draws

\* C12 (as stated): a successful perform_draw returns one descriptor per drawn
\* group, equipment included: k draws of one rod template give one descriptor.
C12_Original ==
    (lastDraw.status = "success")
        => lastDraw.results =
              Cardinality({i \in DOMAIN lastDraw.bag : lastDraw.bag[i] > 0})

\* C12 (amended): the result list has one descriptor per drawn rod and per drawn
\* accessory (k draws of one template give k descriptors), one per bait id, one
\* for the coins total and one per distinct title id.
C12_DescriptorPerUnitOrGroup ==
    (lastDraw.status = "success")
        => lastDraw.results =
              UnitsDrawn(lastDraw.pool_id, lastDraw.bag, "rod")
              + UnitsDrawn(lastDraw.pool_id, lastDraw.bag, "accessory")
              + Cardinality(IdsDrawn(lastDraw.pool_id, lastDraw.bag, "bait"))
              + (IF UnitsDrawn(lastDraw.pool_id, lastDraw.bag, "coins") > 0 THEN 1 ELSE 0)
              + Cardinality(IdsDrawn(lastDraw.pool_id, lastDraw.bag, "titles"))

C12_Witness ==
    /\ lastDraw.status = "success"
    /\ lastDraw.num_draws = 10
    /\ UnitsDrawn(lastDraw.pool_id, lastDraw.bag, "rod") = 9
    /\ lastDraw.results = 10

\* The reward kinds in the order _grant_rewards_batch persists them.
KindOrder == << "rods", "accessories", "baits", "coins", "titles" >>

\* Store faults in which the persistence of one reward kind fails as a whole.
KindFailures == {"rod_fb_none", "acc_fb_none", "baits", "coins", "titles"}

\* C13: when persisting one reward kind fails in a call that got past the debit,
\* perform_draw raises; the kinds persisted before the failing one keep their
\* effect, the failing kind and those after it have none, and the debit stays.
C13_FailurePropagates ==
    (lastDraw.fault \in KindFailures)
        => LET tr == lastDraw.trace
               p == lastDraw.pool_id
               b == lastDraw.bag
               done(k) == InTrace(tr, KindOrder[k])
           IN /\ lastDraw.status = "raise"
              /\ lastDraw.rods = IF done(1) THEN UnitsDrawn(p, b, "rod") ELSE 0
              /\ lastDraw.accs = IF done(2) THEN UnitsDrawn(p, b, "accessory") ELSE 0
              /\ lastDraw.bait = IF done(3) THEN QuantityDrawn(p, b, "bait") ELSE 0
              /\ lastDraw.after = lastDraw.before
                                    - Pools[p].cost_coins * lastDraw.num_draws
                                    + (IF done(4) THEN QuantityDrawn(p, b, "coins") ELSE 0)
              /\ ~done(5) => lastDraw.titles = 0

\* C14: no bait row and no fish row ever has a negative quantity.
C14_NeverNegative ==
    \A u \in Registered :
        /\ \A b \in DOMAIN baitInv[u] : baitInv[u][b] >= 0
        /\ \A f \in DOMAIN fishInv[u] : fishInv[u][f] >= 0

\* C15: no bait row has quantity 0 (bait rows are written only by
\* update_bait_quantity and batch_update_bait_quantities), and after
\* update_fish_quantity the user has no fish row with quantity 0.
C15_NoZeroRow ==
    /\ \A u \in Registered : \A b \in DOMAIN baitInv[u] : baitInv[u][b] # 0
    /\ (lastStore.op = "update_fish_quantity")
          => \A f \in DOMAIN fishInv[lastStore.user] : fishInv[lastStore.user][f] # 0

\* C16: after update_*_quantity(u, t, q), q > 0, on a pair with no row, followed by
\* update_*_quantity(u, t, -q), the pair has no row and every row of every user is
\* as it was before the first call.
C16_RoundTripToEmpty ==
    trip.closed
        => /\ trip.id \notin DOMAIN (IF trip.op = "update_bait_quantity"
                                      THEN baitInv[trip.user] ELSE fishInv[trip.user])
           /\ baitInv = trip.bait
           /\ fishInv = trip.fish

\* C17: a batch_update_bait_quantities call in which a statement or the commit
\* fails raises and leaves every row as it was, whatever it had written; a call in
\* which nothing fails does not raise and has applied all N updates of its list.
C17_BatchAllOrNothing ==
    [][(lastStore'.op = "batch_update_bait_quantities" /\ storeOps' = storeOps + 1)
          => /\ lastStore'.raised <=> lastStore'.fail_at # 0
             /\ lastStore'.raised => baitInv' = baitInv
             /\ ~lastStore'.raised => lastStore'.applied = lastStore'.n
             /\ fishInv' = fishInv
             /\ \A u \in Registered \ {lastStore'.user} : baitInv'[u] = baitInv[u]]_vars

C17_Witness ==
    /\ lastStore.op = "batch_update_bait_quantities"
    /\ lastStore.raised
    /\ lastStore.n = 2
    /\ lastStore.fail_at = 2
    /\ lastStore.written = 1

\* C18: when the bulk insert of batch_add_rod_instances / batch_add_accessory_instances
\* fails, no row of the bulk insert remains, every requested instance is attempted
\* individually exactly once (a failure neither retried nor ending the loop), and in
\* every case the rows inserted are as many as the returned list is long, never more
\* than requested.
C18_FallbackPartialSuccess ==
    lastStore.op \in {"batch_add_rod_instances", "batch_add_accessory_instances"}
    => /\ lastStore.fell_back
          => /\ lastStore.bulk_left = 0
             /\ lastStore.attempts = lastStore.n
             /\ lastStore.each_once
       /\ lastStore.added = lastStore.returned
       /\ lastStore.returned <= lastStore.n

\* A two-instance batch whose bulk insert failed and whose fallback inserted one.
C18_Witness ==
    /\ lastStore.op = "batch_add_rod_instances"
    /\ lastStore.fell_back
    /\ lastStore.n = 2
    /\ lastStore.attempts = 2
    /\ lastStore.returned = 1
    /\ lastStore.added = 1

\* C19: a batch equipment insert that fell back to item-by-item mode signals
\* BatchPartialFailure to its caller.
C19_FallbackSignalled ==
    (lastStore.op \in {"batch_add_rod_instances", "batch_add_accessory_instances"}
     /\ lastStore.fell_back)
    => lastStore.signal = "BatchPartialFailure"

\* C20: no user has two equipped rods or two equipped accessories, in the committed
\* rows and in every state a call passes through.
C20_OneEquippedPerCategory ==
    /\ \A u \in UserIds : EquippedCount(rodRows, u) <= 1 /\ EquippedCount(accRows, u) <= 1
    /\ lastStore.max_equipped <= 1

\* A user with two rods moved the equipped flag from one to the other.
C20_Witness ==
    /\ lastStore.op = "set_equipment_status"
    /\ ~lastStore.raised
    /\ lastStore.replaced
    /\ \E u \in Registered :
          /\ lastStore.user = u
          /\ Cardinality({r \in rodRows : r.user_id = u}) >= 2
          /\ EquippedCount(rodRows, u) = 1

\* C21: a set_equipment_status call given only a rod instance leaves every accessory
\* row as it was, a call given only an accessory instance leaves every rod row as it
\* was, and no call changes a row of another user.
C21_OnlyNamedCategory ==
    [][(lastStore'.op = "set_equipment_status" /\ storeOps' = storeOps + 1)
          => /\ lastStore'.named = "rod" => accRows' = accRows
             /\ lastStore'.named = "accessory" => rodRows' = rodRows
             /\ \A r \in rodRows \cup accRows :
                   r.user_id # lastStore'.user => r \in rodRows' \cup accRows']_vars

\* The value sell_fish_keep_one is to return on these rows: (quantity - 1) x base
\* value over the rows above 1.
SaleValue(rows) ==
    SumOver([f \in DOMAIN rows |-> IF rows[f] > 1 THEN (rows[f] - 1) * FishBaseValue[f]
                                   ELSE 0], DOMAIN rows)

\* C22: a sell_fish_keep_one call that does not fail returns the sum, over the
\* user's rows above 1, of (quantity - 1) x base value, sets exactly those rows to 1,
\* and leaves the user's other rows and every row of other users as they were.
C22_SellKeepOne ==
    [][(lastStore'.op = "sell_fish_keep_one" /\ storeOps' = storeOps + 1
        /\ ~lastStore'.raised)
          => LET u == lastStore'.user
             IN /\ lastStore'.returned = SaleValue(fishInv[u])
                /\ DOMAIN fishInv'[u] = DOMAIN fishInv[u]
                /\ \A f \in DOMAIN fishInv[u] :
                      fishInv'[u][f] = (IF fishInv[u][f] > 1 THEN 1 ELSE fishInv[u][f])
                /\ \A v \in Registered \ {u} : fishInv'[v] = fishInv[v]
                /\ baitInv' = baitInv]_vars

\* The spec's example: of two fish rows one was above 1 and is sold down to 1 for
\* its base value, next to a row that was at 1 already.
C22_Witness ==
    /\ lastStore.op = "sell_fish_keep_one"
    /\ ~lastStore.raised
    /\ lastStore.returned = FishBaseValue[1]
    /\ \E u \in Registered :
          /\ lastStore.user = u
          /\ DOMAIN fishInv[u] = FishIds
          /\ fishInv[u][1] = 1
          /\ fishInv[u][2] = 1

\* C23: a sell_fish_keep_one call in which a statement or the commit fails raises
\* and leaves every fish row as it was; a call in which nothing fails leaves no row
\* of the user above 1.
C23_SellAllOrNothing ==
    [][(lastStore'.op = "sell_fish_keep_one" /\ storeOps' = storeOps + 1)
          => /\ lastStore'.raised <=> lastStore'.fail_at # 0
             /\ lastStore'.raised => fishInv' = fishInv /\ baitInv' = baitInv
             /\ ~lastStore'.raised
                   => \A f \in DOMAIN fishInv'[lastStore'.user] :
                         fishInv'[lastStore'.user][f] <= 1]_vars

\* The commit of a sale with something to sell failed.
C23_Witness ==
    /\ lastStore.op = "sell_fish_keep_one"
    /\ lastStore.raised
    /\ lastStore.fail_at = SellSteps
    /\ \E f \in DOMAIN fishInv[lastStore.user] : fishInv[lastStore.user][f] > 1

\* The accumulated weight of the first j entries.
Accumulated(items, j) == SumOver([i \in 1..j |-> items[i].weight], 1..j)

\* C24: on a pool of total weight W > 0 the weighted draw returns, for every random
\* value, an entry of the pool: the first, in configured order, whose accumulated
\* weight is at least the random value (so on a boundary the earlier entry).
C24_FirstAccumulated ==
    (pick.called /\ TotalWeight(pick.items) > 0)
    => /\ pick.item \in DOMAIN pick.items
       /\ Accumulated(pick.items, pick.item) >= pick.rand_val
       /\ \A j \in 1..(pick.item - 1) : Accumulated(pick.items, j) < pick.rand_val

\* A random value on the boundary between two entries of positive weight selected
\* the earlier one.
C24_Witness ==
    /\ pick.called
    /\ pick.item \in DOMAIN pick.items
    /\ pick.item < Len(pick.items)
    /\ pick.items[pick.item].weight > 0
    /\ pick.items[pick.item + 1].weight > 0
    /\ pick.rand_val = Accumulated(pick.items, pick.item)

\* C25: a draw on a pool with no entries or with total weight 0 returns no entry.
C25_ZeroWeightNoEntry ==
    (pick.called /\ (pick.items = << >> \/ TotalWeight(pick.items) = 0))
    => pick.item = 0

\* The positions of a list of draw outcomes that hold an outcome of the given kind.
Positions(draw_results, kind) ==
    {i \in DOMAIN draw_results : draw_results[i].item_type = kind}

\* C26: the aggregated bait quantity of a bait id is the sum of the quantities of
\* the bait outcomes with that id, the coin total is the sum of the coin outcome
\* quantities, the rod and accessory lists hold exactly the rod and accessory
\* outcomes, one element each, and the title set is the set of title ids drawn.
C26_AggregationConserves ==
    agg.called
    => LET l == agg.draw_results
           r == agg.rewards
           IsRod(item) == item.item_type = "rod"
           IsAccessory(item) == item.item_type = "accessory"
       IN /\ DOMAIN r.baits = {l[i].item_id : i \in Positions(l, "bait")}
          /\ \A b \in DOMAIN r.baits :
                r.baits[b] = SumOver([i \in DOMAIN l |->
                                 IF l[i].item_type = "bait" /\ l[i].item_id = b
                                 THEN l[i].quantity ELSE 0], DOMAIN l)
          /\ r.coins = SumOver([i \in DOMAIN l |->
                           IF l[i].item_type = "coins" THEN l[i].quantity ELSE 0], DOMAIN l)
          /\ r.rods = SelectSeq(l, IsRod)
          /\ r.accessories = SelectSeq(l, IsAccessory)
          /\ r.titles = {l[i].item_id : i \in Positions(l, "titles")}

\* Two bait outcomes of one id with different quantities, a title drawn twice.
C26_Witness ==
    /\ agg.called
    /\ Len(agg.draw_results) = 4
    /\ 1 \in DOMAIN agg.rewards.baits
    /\ agg.rewards.baits[1] = 3
    /\ Cardinality(Positions(agg.draw_results, "titles")) = 2
    /\ Cardinality(agg.rewards.titles) = 1

C30_RefundIsDelta ==
    [][\A h \in Handlers :
          (pc[h] # "report" /\ pc'[h] = "report" /\ loc'[h].failed_at_batch > 0
           /\ loc'[h].remaining_cost > 0)
             => coins'[loc'[h].user_id]
                   = coins[loc'[h].user_id] + loc'[h].remaining_cost]_vars

\* The instance of a type a put_item_on_sale call names, among the seller's rows.
Named(a) ==
    OwnedInstance(IF a.item_type = "rod" THEN rodRows ELSE accRows, a.user_id, a.id)

\* C29: a put_item_on_sale call is rejected and changes nothing (instance, balance,
\* tax records, listings) when the price is not positive, the user does not exist,
\* the user cannot pay the listing tax, the instance is not the user's, the instance
\* is equipped, or the item type is neither rod nor accessory.
C29_RejectedUnchanged ==
    [][(lastMarket'.op = "put_item_on_sale" /\ marketOps' = marketOps + 1)
          => LET a == lastMarket'
                 invalid == \/ a.price <= 0
                            \/ a.user_id \notin Registered
                            \/ coins[a.user_id] < TaxCost(a.price)
                            \/ a.item_type \notin {"rod", "accessory"}
                            \/ Named(a) = {}
                            \/ \E i \in Named(a) : i.is_equipped
             IN /\ invalid <=> ~a.success
                /\ ~a.success
                     => /\ coins' = coins
                        /\ rodRows' = rodRows
                        /\ accRows' = accRows
                        /\ listings' = listings
                        /\ taxRecords' = taxRecords]_vars

\* An owned, equipped rod was offered at an affordable price, and is still there.
C29_Witness ==
    /\ lastMarket.op = "put_item_on_sale"
    /\ ~lastMarket.success
    /\ lastMarket.message = "equipped"
    /\ \E r \in rodRows : r.id = lastMarket.id /\ r.user_id = lastMarket.user_id
                          /\ r.is_equipped
    /\ listings = {}

\* C28: every user's persisted balance is at least 0, in every state reached by the
\* draws, the 10000-draw operations with their refunds, put_item_on_sale and
\* buy_market_item, however the handlers interleave.
C28_BalanceNonNegative == \A u \in Registered : coins[u] >= 0

\* A 10000-draw operation that refunded, an ordinary draw and a purchase in one run.
C28_Witness ==
    /\ lastMarket.op = "buy_market_item"
    /\ lastMarket.success
    /\ lastDraw.caller = "gacha"
    /\ lastDraw.status = "success"
    /\ pc["h1"] = "report"
    /\ loc["h1"].remaining_cost > 0

\* C31: in the partial-completion result of an operation whose sub-batch returned
\* failure, completed draws + refunded draws = 10000, and the refund reported
\* (total cost - cost x completed draws) is the amount of the remaining sub-batches
\* and the amount by which the refund raised the balance.
C31_PartialReportAgrees ==
    \A h \in Handlers :
        (pc[h] = "report" /\ loc[h].failed_at_batch > 0
         /\ resp.handler = h /\ resp.kind = "partial")
            => LET cost == Pools[loc[h].pool_id].cost_coins
                   remaining_batches == NumBatches - loc[h].batch
               IN /\ resp.completed + remaining_batches * BatchSize = TenThousand
                  /\ resp.refunded = loc[h].total_cost - cost * resp.completed
                  /\ resp.refunded = remaining_batches * BatchSize * cost
                  /\ resp.refunded = ledger[h].credited

\* C32: a batch_update_bait_quantities call in which nothing fails leaves the rows
\* that update_bait_quantity applied to each pair of its list in order would leave.
C32_BatchAsSequential ==
    (lastStore.op = "batch_update_bait_quantities" /\ ~lastStore.raised)
        => lastStore.as_sequential

\* C33: after any perform_draw call, the number of rod audit records it wrote is the
\* number of rod instances it inserted, and likewise for accessories.
C33_AuditMatchesEquipment ==
    (lastDraw.caller = "gacha")
        => /\ lastDraw.rod_logs = lastDraw.rods
           /\ lastDraw.accessory_logs = lastDraw.accs

\* C34: a request that is rejected as busy or returns on validation leaves the lock
\* flag and the recorded holder as they were.
C34_RejectionKeepsSlot ==
    [][\A h \in Handlers :
          (pc[h] = "idle" /\ pc'[h] = "done")
             => (lock' = lock /\ lockUser' = lockUser)]_vars

\* A request was rejected as busy while another user's operation holds the slot
\* and is between two sub-batches.
C34_Witness ==
    /\ resp.kind = "busy_other"
    /\ pc[resp.handler] = "done"
    /\ lock
    /\ lockUser = "u1"
    /\ \E h \in Handlers : pc[h] = "progress" /\ loc[h].user_id = "u1"

\* C36: a buy_market_item call that succeeds lowers the buyer's balance by the
\* listing price and raises the seller's by the same amount, every other balance
\* staying; it is rejected, with no balance, instance, listing or tax record
\* changed, exactly when the buyer is unknown, the listing is unknown, the buyer is
\* the seller, the seller is missing, or the buyer cannot pay the price.
C36_BuyConservesCurrency ==
    [][(lastMarket'.op = "buy_market_item" /\ marketOps' = marketOps + 1)
          => LET a == lastMarket'
                 found == {l \in listings : l.market_id = a.id}
                 rejected == \/ a.user_id \notin Registered
                             \/ found = {}
                             \/ \E l \in found :
                                   \/ a.user_id = l.user_id
                                   \/ l.user_id \notin Registered
                                   \/ coins[a.user_id] < l.price
             IN /\ rejected <=> ~a.success
                /\ a.success
                     => \E l \in found :
                           /\ coins' = [coins EXCEPT ![a.user_id] = @ - l.price,
                                                     ![l.user_id] = @ + l.price]
                           /\ SumOver(coins', Registered) = SumOver(coins, Registered)
                /\ ~a.success
                     => /\ coins' = coins
                        /\ rodRows' = rodRows
                        /\ accRows' = accRows
                        /\ listings' = listings
                        /\ taxRecords' = taxRecords]_vars

\* "u2" listed a rod at 50 (tax 1) and "u1" bought it.
C36_Witness ==
    /\ lastMarket.op = "buy_market_item"
    /\ lastMarket.success
    /\ lastMarket.user_id = "u1"
    /\ coins["u1"] = InitBalance["u1"] - 50
    /\ coins["u2"] = InitBalance["u2"] - 1 + 50
    /\ listings = {}

\* Number of places an item of one type and template is in: the instances in the
\* inventories and the listings on the market.
Held(rods, accs, ls, item_type, tid) ==
    Cardinality({r \in (IF item_type = "rod" THEN rods ELSE accs) : r.tid = tid})
        + Cardinality({l \in ls : l.item_type = item_type /\ l.item_id = tid})

\* C35: every put_item_on_sale, buy_market_item and remove_item_from_market call,
\* whether it succeeds, is rejected or fails at one of its store calls, leaves each
\* item in one place: per item type and template, the instances in the inventories
\* plus the listings on the market number what they did before the call.
C35_ItemConservation ==
    [][(marketOps' = marketOps + 1)
          => /\ \A tid \in RodIds :
                   Held(rodRows', accRows', listings', "rod", tid)
                      = Held(rodRows, accRows, listings, "rod", tid)
             /\ \A tid \in AccessoryIds :
                   Held(rodRows', accRows', listings', "accessory", tid)
                      = Held(rodRows, accRows, listings, "accessory", tid)]_vars

\* C37: of the buy_market_item calls made for one market_id by different buyers,
\* however their store calls interleave, at most one charges its buyer and at most
\* one equipment instance is created.
C37_SoldAtMostOnce ==
    \A k \in 1..NextMarketId(listings) :
        LET calls == {b \in Buyers : buys[b].market_id = k}
        IN /\ Cardinality({b \in calls : buys[b].charged}) <= 1
           /\ SumOver([b \in calls |-> buys[b].granted], calls) <= 1

\* C38: on a pool of total weight W > 0 the weighted draw never returns an entry of
\* weight 0, wherever that entry stands in the configured order and whatever value
\* from 0 to W the random source produced.
C38_ZeroWeightNeverDrawn ==
    (pick.called /\ TotalWeight(pick.items) > 0 /\ pick.item \in DOMAIN pick.items)
        => pick.items[pick.item].weight > 0

\* C39: a set_equipment_status call whose instance ids are ids of no row of the user
\* leaves the user's equipped rod and equipped accessory as they were.
C39_StrayIdKeepsEquipped ==
    [][(lastStore'.op = "set_equipment_status" /\ storeOps' = storeOps + 1
        /\ lastStore'.stray)
          => /\ EquippedId(rodRows', lastStore'.user) = EquippedId(rodRows, lastStore'.user)
             /\ EquippedId(accRows', lastStore'.user) = EquippedId(accRows, lastStore'.user)]_vars

====
